---------------------------- MODULE Spec2Model ----------------------------
(***************************************************************************)
(* A model of elementpath's XPath dynamic context (xpath_context.py):     *)
(* the focus (item, position, size, axis), the cached parent map, the     *)
(* axis iterators and the selector drivers.  Every generator of the       *)
(* source is a frame on `stack`; one resume of a generator (from a yield  *)
(* to the next yield or to its end) is one action.                        *)
(***************************************************************************)
EXTENDS Integers, Sequences, FiniteSets, TLC

VARIABLES
    tree,             \* the host tree: shape, text, tails, comments
    root,             \* XPathContext.root: the document or the root element
    item,             \* XPathContext.item
    position,         \* XPathContext.position
    size,             \* XPathContext.size
    axis,             \* XPathContext.axis
    parent_map,       \* XPathContext._parent_map (NoMap is Python's None)
    cache,            \* the lru_cache of get_parent: a set of (key, value)
    variable_values,  \* XPathContext.variable_values
    stack,            \* the live generator frames, innermost last
    last,             \* what the last finished generator or call produced
    _elem,            \* XPathContext._elem
    current_dt,       \* XPathContext.current_dt
    timezone,         \* XPathContext.timezone
    clone             \* a second context, made by copy() (NoClone: none)

vars == <<tree, root, item, position, size, axis, parent_map, cache,
          variable_values, stack, last, _elem, current_dt, timezone, clone>>

\* The attributes and the object that the traversals of the context and the
\* calls of get_parent, iter_product and iter_results do not assign.
others == <<_elem, current_dt, timezone, clone>>

-----------------------------------------------------------------------------
(* Bounds of the model *)

MaxElems == 4        \* elements of a generated tree
MaxSel == 2          \* values one selector of iter_product produces
MaxDim == 3          \* selectors given to iter_product
MaxResults == 2      \* length of the list given to iter_results

-----------------------------------------------------------------------------
(* Nodes.  Elements are identified by their number (Python identity); a   *)
(* text or attribute node is identified by the place of the host tree it  *)
(* was made from (its owner, and the slot or the name).                   *)

None == [kind |-> "None"]
Doc == [kind |-> "doc"]
Elem(i) == [kind |-> "elem", id |-> i]
TypedElement(i) == [kind |-> "typed", elem |-> Elem(i)]
TextNode(v, o, s) == [kind |-> "text", value |-> v, owner |-> o, slot |-> s]
AttributeNode(n, v, o) == [kind |-> "attr", name |-> n, value |-> v, owner |-> o]
TypedAttribute(a) == [kind |-> "typedattr", attribute |-> a]

\* An element that belongs to no tree (number 0: no parent, no children).
OutElem == Elem(0)

is_document_node(x) == x.kind = "doc"
is_etree_element(x) == x.kind = "elem"
callable_tag(x) == x.kind = "elem" /\ x.id \in tree.comment
is_element_node(x) ==
    \/ x.kind = "typed"
    \/ x.kind = "elem" /\ ~callable_tag(x)

\* Faulty variant: two attribute nodes are equal when their names and their
\* values are (a tuple of the name and the value, compared as a tuple).
PyEq_by_value(a, b) ==
    IF a.kind = "attr" /\ b.kind = "attr"
    THEN a.name = b.name /\ a.value = b.value
    ELSE a = b

\* == on two nodes (and their hash, for a set or a cache): two handles are
\* equal when they stand for the same node of the host tree, never because
\* their values agree.
PyEq(a, b) == a = b

\* Faulty variant: two text nodes are taken for the same node when their
\* strings are equal.
PyIn_by_value(x, xs) ==
    \E k \in 1..Len(xs) :
        IF x.kind = "text" /\ xs[k].kind = "text" THEN x.value = xs[k].value
        ELSE PyEq(x, xs[k])

\* Python's `x in xs` for a list or a set of nodes.
PyIn(x, xs) == \E k \in 1..Len(xs) : PyEq(x, xs[k])

-----------------------------------------------------------------------------
(* Sequences *)

RECURSIVE Ascending(_)
Ascending(S) ==
    IF S = {} THEN <<>>
    ELSE LET m == CHOOSE x \in S : \A y \in S : x <= y
         IN <<m>> \o Ascending(S \ {m})

Reverse(s) == [k \in 1..Len(s) |-> s[Len(s) + 1 - k]]

Range(s) == {s[k] : k \in 1..Len(s)}

-----------------------------------------------------------------------------
(* The host tree (ElementTree): what the context reads from it *)

\* `for child in elem`, `len(elem)`: the ordered element children.
Children(i) ==
    IF i = 0 THEN <<>>
    ELSE Ascending({c \in 2..tree.n : tree.parent[c] = i})

\* elem.text and elem.tail: <<>> is None, <<v>> the string v.
ElemText(i) == IF i # 0 /\ i \in tree.text THEN <<"x">> ELSE <<>>
ElemTail(i) == IF i # 0 /\ i # 1 /\ i \in tree.tail THEN <<"y">> ELSE <<>>

\* elem.attrib.items(): (name, value) pairs in order.
Attrib(i) ==
    IF i = 1 THEN << <<"x", "1">>, <<"y", "2">> >>
    ELSE IF i = 2 THEN << <<"x", "1">> >>
    ELSE <<>>

\* elem.iter(): the elements of the subtree, in document order.  ItersFrom
\* is the part of it under the children of i numbered c or more.
RECURSIVE ElemIter(_), ItersFrom(_, _)
ElemIter(i) == <<Elem(i)>> \o ItersFrom(i, i + 1)
ItersFrom(i, c) ==
    IF i = 0 \/ c > tree.n THEN <<>>
    ELSE (IF tree.parent[c] = i THEN ElemIter(c) ELSE <<>>) \o ItersFrom(i, c + 1)

\* root.iter() for a root that is an element or a document.
RootIter(r) == IF is_document_node(r) THEN ElemIter(1) ELSE ElemIter(r.id)

\* document.getroot()
getroot == Elem(1)

\* e is an element of the tree.
InTree(e) == e.kind = "elem" /\ e.id \in 1..tree.n

\* etree_iter_nodes(root, with_root, with_attributes): the nodes of a subtree in
\* document order (depth first, an element's attributes and text before its
\* children, its tail after its subtree); the walk's own root has no tail.
RECURSIVE WalkNodes(_, _, _, _), WalksFrom(_, _, _, _, _)
WalkNodes(i, top, with_root, with_attributes) ==
    LET at == Attrib(i)
    IN (IF with_root \/ i # top THEN <<Elem(i)>> ELSE <<>>)
       \o (IF with_attributes
           THEN [k \in 1..Len(at) |-> AttributeNode(at[k][1], at[k][2], i)]
           ELSE <<>>)
       \o [k \in 1..Len(ElemText(i)) |-> TextNode(ElemText(i)[k], i, "text")]
       \o WalksFrom(i, i + 1, top, with_root, with_attributes)
       \o (IF i # top
           THEN [k \in 1..Len(ElemTail(i)) |-> TextNode(ElemTail(i)[k], i, "tail")]
           ELSE <<>>)
WalksFrom(i, c, top, with_root, with_attributes) ==
    IF i = 0 \/ c > tree.n THEN <<>>
    ELSE (IF tree.parent[c] = i
          THEN WalkNodes(c, top, with_root, with_attributes)
          ELSE <<>>)
         \o WalksFrom(i, c + 1, top, with_root, with_attributes)

etree_iter_nodes(r, with_root, with_attributes) ==
    IF r.kind = "typed" THEN WalkNodes(r.elem.id, r.elem.id, with_root, with_attributes)
    ELSE IF is_document_node(r)
         THEN (IF with_root THEN <<Doc>> ELSE <<>>)
              \o WalkNodes(1, 0, with_root, with_attributes)
    ELSE WalkNodes(r.id, r.id, with_root, with_attributes)

-----------------------------------------------------------------------------
(* The parent map and get_parent *)

NoMap == [kind |-> "None"]

\* Faulty variant: `for child in elem.iter()` in place of `for child in elem`
\* (elem.iter() starts with elem itself, so every element ends up mapped to
\* itself).
BuildParentMap_iter ==
    [kind |-> "map", of |-> {<<Elem(c), Elem(c)>> : c \in 1..tree.n}]

\* {child: elem for elem in self.root.iter() for child in elem}
BuildParentMap ==
    LET es == RootIter(root)
        pairs == {<<Elem(c), es[k]>> : k \in 1..Len(es), c \in 2..tree.n}
        ok == {p \in pairs : tree.parent[p[1].id] = p[2].id}
    IN [kind |-> "map", of |-> ok]

MapHas(pm, e) == pm.kind = "map" /\ \E p \in pm.of : p[1] = e
MapGet(pm, e) == (CHOOSE p \in pm.of : p[1] = e)[2]

\* Faulty variant: the TypedElement is not unwrapped before the lookup.
get_parent_body_wrapped(pm, x) ==
    IF x = root THEN [res |-> None, pm |-> pm]
    ELSE IF MapHas(pm, x) THEN [res |-> MapGet(pm, x), pm |-> pm]
    ELSE IF MapHas(BuildParentMap, x)
         THEN [res |-> MapGet(BuildParentMap, x), pm |-> BuildParentMap]
         ELSE [res |-> None, pm |-> BuildParentMap]

\* The body of get_parent: the result and the parent map it leaves.
get_parent_body(pm, x) ==
    LET elem == IF x.kind = "typed" THEN x.elem ELSE x
    IN IF elem = root THEN [res |-> None, pm |-> pm]
       ELSE IF MapHas(pm, elem) THEN [res |-> MapGet(pm, elem), pm |-> pm]
       ELSE LET built == BuildParentMap
            IN IF MapHas(built, elem)
               THEN [res |-> MapGet(built, elem), pm |-> built]
               ELSE [res |-> None, pm |-> built]

CacheHas(ch, x) == \E c \in ch : PyEq(c.k, x)
CacheGet(ch, x) == (CHOOSE c \in ch : PyEq(c.k, x)).v

\* get_parent under its lru_cache; st is [pm, cache], the result adds res.
get_parent(st, x) ==
    IF CacheHas(st.cache, x)
    THEN [res |-> CacheGet(st.cache, x), pm |-> st.pm, cache |-> st.cache]
    ELSE LET r == get_parent_body(st.pm, x)
         IN [res |-> r.res, pm |-> r.pm,
             cache |-> st.cache \cup {[k |-> x, v |-> r.res]}]

\* Faulty variant: `if parent is not None:` in place of the `while`.
AncestorLoop_parent_only(st, parent, acc) ==
    IF parent = None THEN [list |-> acc, pm |-> st.pm, cache |-> st.cache]
    ELSE [list |-> Append(acc, parent), pm |-> st.pm, cache |-> st.cache]

\* parent = get_parent(x); while parent is not None: append; parent = get_parent(parent)
RECURSIVE AncestorLoop(_, _, _)
AncestorLoop(st, parent, acc) ==
    IF parent = None THEN [list |-> acc, pm |-> st.pm, cache |-> st.cache]
    ELSE LET r == get_parent(st, parent)
         IN AncestorLoop([pm |-> r.pm, cache |-> r.cache], r.res, Append(acc, parent))

-----------------------------------------------------------------------------
(* Generators.  A frame holds a generator's local variables; a step runs   *)
(* it from where it is suspended (pc) to its next yield or to its end and  *)
(* gives the focus foc, the parent-map state st, the frame f, the yielded  *)
(* value y (<<>> when it ended) and fin.                                   *)

NoAxis == "None"

Yield(f, foc, st, v) == [foc |-> foc, st |-> st, f |-> f, y |-> <<v>>, fin |-> FALSE]
Return(f, foc, st) == [foc |-> foc, st |-> st, f |-> f, y |-> <<>>, fin |-> TRUE]

\* Faulty variant: enumerate(nodes) without start=1.
EnumLoop_start0(f, foc, st) ==
    IF f.i < Len(f.nodes)
    THEN LET k == f.i + 1
         IN Yield([f EXCEPT !.i = k, !.pc = "loop"],
                  [foc EXCEPT !.position = k - 1, !.item = f.nodes[k]], st, f.nodes[k])
    ELSE Return(f, f.status, st)

\* for self.position, self.item in enumerate(nodes, start=1): yield self.item
\* and then: self.item, self.size, self.position, self.axis = status
EnumLoop(f, foc, st) ==
    IF f.i < Len(f.nodes)
    THEN LET k == f.i + 1
         IN Yield([f EXCEPT !.i = k, !.pc = "loop"],
                  [foc EXCEPT !.position = k, !.item = f.nodes[k]], st, f.nodes[k])
    ELSE Return(f, f.status, st)

\* Faulty variant: `self.position -= 1` is missing.
DownLoop_no_decrement(f, foc, st) ==
    IF f.i < Len(f.nodes)
    THEN LET k == f.i + 1
         IN Yield([f EXCEPT !.i = k, !.pc = "down"],
                  [foc EXCEPT !.item = f.nodes[k]], st, f.nodes[k])
    ELSE Return(f, f.status, st)

\* for self.item in nodes: yield self.item; self.position -= 1
\* and then the same restoration.
DownLoop(f, foc, st) ==
    LET foc1 == IF f.pc = "down" THEN [foc EXCEPT !.position = foc.position - 1]
                ELSE foc
    IN IF f.i < Len(f.nodes)
       THEN LET k == f.i + 1
            IN Yield([f EXCEPT !.i = k, !.pc = "down"],
                     [foc1 EXCEPT !.item = f.nodes[k]], st, f.nodes[k])
       ELSE Return(f, f.status, st)

\* The end of a generator suspended at its only yield: restore and return.
RestoreAll(f, foc, st) == Return(f, f.status, st)

Unwrap(x) == IF x.kind = "typed" THEN x.elem ELSE x

RootElem == IF is_document_node(root) THEN getroot ELSE root

iter_self(f, foc, st) ==
    IF f.pc = "start"
    THEN Yield([f EXCEPT !.pc = "single", !.status = foc],
               [foc EXCEPT !.size = 1, !.position = 1, !.axis = "self"],
               st, foc.item)
    ELSE Return(f, [foc EXCEPT !.size = f.status.size,
                               !.position = f.status.position,
                               !.axis = f.status.axis], st)

\* Faulty variant: `self.size = len(attributes)` is left out.
iter_attributes_keeps_size(f, foc, st) ==
    IF f.pc = "start"
    THEN IF foc.item.kind \in {"attr", "typedattr"} /\ foc.axis = "attribute"
         THEN Yield([f EXCEPT !.pc = "plain"], foc, st, foc.item)
         ELSE IF ~is_element_node(foc.item) THEN Return(f, foc, st)
         ELSE LET elem == Unwrap(foc.item)
                  at == Attrib(elem.id)
                  attributes == [k \in 1..Len(at) |->
                                    AttributeNode(at[k][1], at[k][2], elem.id)]
              IN EnumLoop([f EXCEPT !.status = foc, !.nodes = attributes],
                          [foc EXCEPT !.axis = "attribute", !.item = elem], st)
    ELSE IF f.pc = "plain" THEN Return(f, foc, st)
    ELSE EnumLoop(f, foc, st)

iter_attributes(f, foc, st) ==
    IF f.pc = "start"
    THEN IF foc.item.kind \in {"attr", "typedattr"} /\ foc.axis = "attribute"
         THEN Yield([f EXCEPT !.pc = "plain"], foc, st, foc.item)
         ELSE IF ~is_element_node(foc.item) THEN Return(f, foc, st)
         ELSE LET elem == Unwrap(foc.item)
                  at == Attrib(elem.id)
                  attributes == [k \in 1..Len(at) |->
                                    AttributeNode(at[k][1], at[k][2], elem.id)]
              IN EnumLoop([f EXCEPT !.status = foc, !.nodes = attributes],
                          [foc EXCEPT !.axis = "attribute", !.item = elem,
                                      !.size = Len(attributes)], st)
    ELSE IF f.pc = "plain" THEN Return(f, foc, st)
    ELSE EnumLoop(f, foc, st)

\* Faulty variant: `if not child_axis:` without the test of self.axis.
iter_children_or_self_any_axis(f, foc, st) ==
    IF f.pc = "start"
    THEN IF ~f.arg.child_axis
         THEN Yield([f EXCEPT !.pc = "plain"], foc, st, foc.item)
         ELSE LET it == Unwrap(foc.item)
                  foc1 == [foc EXCEPT !.axis = "child", !.item = it]
                  f1 == [f EXCEPT !.status = foc]
              IN IF it = None \/ is_document_node(it)
                 THEN Yield([f1 EXCEPT !.pc = "single"],
                            [foc1 EXCEPT !.size = 1, !.position = 1,
                                         !.item = RootElem],
                            st, RootElem)
                 ELSE IF is_etree_element(it)
                 THEN IF ElemText(it.id) # <<>>
                      THEN LET t == TextNode(ElemText(it.id)[1], it.id, "text")
                           IN Yield([f1 EXCEPT !.pc = "text", !.elem = it],
                                    [foc1 EXCEPT !.item = t], st, t)
                      ELSE EnumLoop([f1 EXCEPT !.nodes =
                                        [k \in 1..Len(Children(it.id)) |->
                                            Elem(Children(it.id)[k])]],
                                    [foc1 EXCEPT !.size = Len(Children(it.id))], st)
                 ELSE Return(f1, foc, st)
    ELSE IF f.pc = "plain" THEN Return(f, foc, st)
    ELSE IF f.pc = "single" THEN RestoreAll(f, foc, st)
    ELSE IF f.pc = "text"
    THEN EnumLoop([f EXCEPT !.nodes = [k \in 1..Len(Children(f.elem.id)) |->
                                          Elem(Children(f.elem.id)[k])]],
                  [foc EXCEPT !.size = Len(Children(f.elem.id))], st)
    ELSE EnumLoop(f, foc, st)

iter_children_or_self(f, foc, st) ==
    IF f.pc = "start"
    THEN IF ~f.arg.child_axis /\ foc.axis # NoAxis
         THEN Yield([f EXCEPT !.pc = "plain"], foc, st, foc.item)
         ELSE LET it == Unwrap(foc.item)
                  foc1 == [foc EXCEPT !.axis = "child", !.item = it]
                  f1 == [f EXCEPT !.status = foc]
              IN IF it = None \/ is_document_node(it)
                 THEN Yield([f1 EXCEPT !.pc = "single"],
                            [foc1 EXCEPT !.size = 1, !.position = 1,
                                         !.item = RootElem],
                            st, RootElem)
                 ELSE IF is_etree_element(it)
                 THEN IF ElemText(it.id) # <<>>
                      THEN LET t == TextNode(ElemText(it.id)[1], it.id, "text")
                           IN Yield([f1 EXCEPT !.pc = "text", !.elem = it],
                                    [foc1 EXCEPT !.item = t], st, t)
                      ELSE EnumLoop([f1 EXCEPT !.nodes =
                                        [k \in 1..Len(Children(it.id)) |->
                                            Elem(Children(it.id)[k])]],
                                    [foc1 EXCEPT !.size = Len(Children(it.id))], st)
                 ELSE Return(f1, foc, st)
    ELSE IF f.pc = "plain" THEN Return(f, foc, st)
    ELSE IF f.pc = "single" THEN RestoreAll(f, foc, st)
    ELSE IF f.pc = "text"
    THEN EnumLoop([f EXCEPT !.nodes = [k \in 1..Len(Children(f.elem.id)) |->
                                          Elem(Children(f.elem.id)[k])]],
                  [foc EXCEPT !.size = Len(Children(f.elem.id))], st)
    ELSE EnumLoop(f, foc, st)

\* Faulty variant: the document is given as the parent of its root element.
iter_parent_with_document(f, foc, st) ==
    IF f.pc = "start"
    THEN LET r == get_parent(st, Unwrap(foc.item))
             st1 == [pm |-> r.pm, cache |-> r.cache]
             parent == IF /\ r.res = None
                          /\ is_document_node(root)
                          /\ Unwrap(foc.item) = getroot
                       THEN root ELSE r.res
         IN IF parent # None
            THEN Yield([f EXCEPT !.pc = "single", !.status = foc],
                       [foc EXCEPT !.axis = "parent", !.item = parent,
                                   !.size = 1, !.position = 1], st1, parent)
            ELSE Return(f, foc, st1)
    ELSE RestoreAll(f, foc, st)

iter_parent(f, foc, st) ==
    IF f.pc = "start"
    THEN LET r == get_parent(st, Unwrap(foc.item))
             st1 == [pm |-> r.pm, cache |-> r.cache]
         IN IF r.res # None
            THEN Yield([f EXCEPT !.pc = "single", !.status = foc],
                       [foc EXCEPT !.axis = "parent", !.item = r.res,
                                   !.size = 1, !.position = 1], st1, r.res)
            ELSE Return(f, foc, st1)
    ELSE RestoreAll(f, foc, st)

\* Faulty variant: the loop over the children does not break at the item.
RECURSIVE Before_nobreak(_, _)
Before_nobreak(cs, it) ==
    IF cs = <<>> THEN <<>>
    ELSE (IF Head(cs) = it THEN <<>> ELSE <<Head(cs)>>)
         \o Before_nobreak(Tail(cs), it)

\* The children of parent before the first one that `is` it (all of them
\* when none is), and those after it.
RECURSIVE Before(_, _)
Before(cs, it) ==
    IF cs = <<>> \/ Head(cs) = it THEN <<>>
    ELSE <<Head(cs)>> \o Before(Tail(cs), it)

RECURSIVE After(_, _)
After(cs, it) ==
    IF cs = <<>> THEN <<>>
    ELSE IF Head(cs) = it THEN Tail(cs)
    ELSE After(Tail(cs), it)

ElemChildren(e) == [k \in 1..Len(Children(e.id)) |-> Elem(Children(e.id)[k])]

iter_siblings(f, foc, st) ==
    IF f.pc = "start"
    THEN IF foc.item.kind # "typed"
            /\ (~is_etree_element(foc.item) \/ callable_tag(foc.item))
         THEN Return(f, foc, st)
         ELSE LET it == Unwrap(foc.item)
                  r == get_parent(st, it)
                  st1 == [pm |-> r.pm, cache |-> r.cache]
              IN IF r.res = None THEN Return(f, foc, st1)
                 ELSE IF f.arg.axis = "preceding-sibling"
                 THEN LET siblings == Before(ElemChildren(r.res), it)
                      IN DownLoop([f EXCEPT !.status = foc, !.nodes = siblings],
                                  [foc EXCEPT !.axis = "preceding-sibling",
                                              !.size = Len(siblings),
                                              !.position = Len(siblings)], st1)
                 ELSE LET siblings == After(ElemChildren(r.res), it)
                      IN EnumLoop([f EXCEPT !.status = foc, !.nodes = siblings],
                                  [foc EXCEPT !.axis = IF f.arg.axis = NoAxis
                                                       THEN "following-sibling"
                                                       ELSE f.arg.axis,
                                              !.size = Len(siblings)], st1)
    ELSE IF f.pc = "down" THEN DownLoop(f, foc, st)
    ELSE EnumLoop(f, foc, st)

\* Faulty variant: with_root=False is not passed for the descendant axis.
DescendantNodes_with_root(it, ax) == etree_iter_nodes(it, TRUE, FALSE)

\* descendants = [x for x in self._iter_nodes(self.item, with_root=...)]
DescendantNodes(it, ax) ==
    IF ax = "descendant" THEN etree_iter_nodes(it, FALSE, FALSE)
    ELSE etree_iter_nodes(it, TRUE, FALSE)

DescendantsLoop(f, foc, st) ==
    LET descendants == DescendantNodes(foc.item, f.arg.axis)
    IN EnumLoop([f EXCEPT !.nodes = descendants],
                [foc EXCEPT !.size = Len(descendants)], st)

\* Faulty variant: with no item the walk starts at the root element and the
\* root itself is not yielded before it.
iter_descendants_no_document(f, foc, st) ==
    IF f.pc = "start"
    THEN LET it == IF f.arg.item # None THEN Unwrap(f.arg.item)
                   ELSE Unwrap(foc.item)
             foc1 == [foc EXCEPT !.axis = IF f.arg.axis = NoAxis
                                          THEN "descendant-or-self"
                                          ELSE f.arg.axis,
                                 !.item = it]
             f1 == [f EXCEPT !.status = foc]
         IN IF it = None
            THEN DescendantsLoop(f1, [foc1 EXCEPT !.item = RootElem], st)
            ELSE IF is_element_node(it) THEN DescendantsLoop(f1, foc1, st)
            ELSE IF is_document_node(it)
            THEN Yield([f1 EXCEPT !.pc = "docfirst"],
                       [foc1 EXCEPT !.size = 1, !.position = 1], st, it)
            ELSE Return(f1, foc1, st)
    ELSE IF f.pc = "docfirst"
    THEN DescendantsLoop(f, [foc EXCEPT !.item = RootElem], st)
    ELSE EnumLoop(f, foc, st)

iter_descendants(f, foc, st) ==
    IF f.pc = "start"
    THEN LET it == IF f.arg.item # None THEN Unwrap(f.arg.item)
                   ELSE Unwrap(foc.item)
             foc1 == [foc EXCEPT !.axis = IF f.arg.axis = NoAxis
                                          THEN "descendant-or-self"
                                          ELSE f.arg.axis,
                                 !.item = it]
             f1 == [f EXCEPT !.status = foc]
         IN IF it = None
            THEN Yield([f1 EXCEPT !.pc = "docfirst"],
                       [foc1 EXCEPT !.size = 1, !.position = 1], st, root)
            ELSE IF is_element_node(it) THEN DescendantsLoop(f1, foc1, st)
            ELSE IF is_document_node(it)
            THEN Yield([f1 EXCEPT !.pc = "docfirst"],
                       [foc1 EXCEPT !.size = 1, !.position = 1], st, it)
            ELSE Return(f1, foc1, st)
    ELSE IF f.pc = "docfirst"
    THEN DescendantsLoop(f, [foc EXCEPT !.item = RootElem], st)
    ELSE EnumLoop(f, foc, st)

iter_ancestors(f, foc, st) ==
    IF f.pc = "start"
    THEN LET it == Unwrap(foc.item)
             r == get_parent(st, it)
             seed == IF f.arg.axis = "ancestor-or-self" THEN <<it>> ELSE <<>>
             a == AncestorLoop([pm |-> r.pm, cache |-> r.cache], r.res, seed)
             ancestors == a.list
             n == IF Len(ancestors) = 0 THEN 1 ELSE Len(ancestors)
         IN DownLoop([f EXCEPT !.status = foc, !.nodes = Reverse(ancestors)],
                     [foc EXCEPT !.axis = IF f.arg.axis = NoAxis
                                          THEN "ancestor-or-self"
                                          ELSE f.arg.axis,
                                 !.item = it, !.size = n, !.position = n],
                     [pm |-> a.pm, cache |-> a.cache])
    ELSE DownLoop(f, foc, st)

\* Faulty variant: `elif elem not in ancestors` is missing.
RECURSIVE PrecedingLoop_with_ancestors(_, _, _)
PrecedingLoop_with_ancestors(es, it, ancestors) ==
    IF es = <<>> \/ Head(es) = it THEN <<>>
    ELSE <<Head(es)>> \o PrecedingLoop_with_ancestors(Tail(es), it, ancestors)

\* for elem in self.root.iter(): if elem is item: break
\*                               elif elem not in ancestors: preceding.append(elem)
RECURSIVE PrecedingLoop(_, _, _)
PrecedingLoop(es, it, ancestors) ==
    IF es = <<>> \/ Head(es) = it THEN <<>>
    ELSE (IF PyIn(Head(es), ancestors) THEN <<>> ELSE <<Head(es)>>)
         \o PrecedingLoop(Tail(es), it, ancestors)

iter_preceding(f, foc, st) ==
    IF f.pc = "start"
    THEN LET it == Unwrap(foc.item)
         IN IF ~is_etree_element(it) \/ it = root \/ callable_tag(it)
            THEN Return(f, foc, st)
            ELSE LET r == get_parent(st, it)
                     a == AncestorLoop([pm |-> r.pm, cache |-> r.cache], r.res, <<>>)
                     preceding == PrecedingLoop(RootIter(root), it, a.list)
                 IN EnumLoop([f EXCEPT !.status = foc, !.nodes = preceding],
                             [foc EXCEPT !.axis = "preceding",
                                         !.size = Len(preceding)],
                             [pm |-> a.pm, cache |-> a.cache])
    ELSE EnumLoop(f, foc, st)

\* for elem in self._iter_nodes(self.root):
\*     if follows: (if elem not in descendants: followings.append(elem))
\*     elif self.item is elem: follows = True
RECURSIVE FollowingLoop(_, _, _, _)
FollowingLoop(ns, it, descendants, follows) ==
    IF ns = <<>> THEN <<>>
    ELSE IF follows
    THEN (IF PyIn(Head(ns), descendants) THEN <<>> ELSE <<Head(ns)>>)
         \o FollowingLoop(Tail(ns), it, descendants, TRUE)
    ELSE FollowingLoop(Tail(ns), it, descendants, Head(ns) = it)

iter_followings(f, foc, st) ==
    IF f.pc = "start"
    THEN LET foc1 == [foc EXCEPT !.axis = "following"]
             f1 == [f EXCEPT !.status = foc]
         IN IF foc.item = None \/ foc.item = root THEN Return(f1, foc1, st)
            ELSE IF foc.item.kind # "typed"
                    /\ (~is_etree_element(foc.item) \/ callable_tag(foc.item))
            THEN Return(f1, foc1, st)
            ELSE LET it == Unwrap(foc.item)
                     descendants == etree_iter_nodes(it, TRUE, FALSE)
                     followings == FollowingLoop(etree_iter_nodes(root, TRUE, FALSE),
                                                 it, descendants, FALSE)
                 IN EnumLoop([f1 EXCEPT !.nodes = followings],
                             [foc1 EXCEPT !.item = it, !.size = Len(followings)],
                             st)
    ELSE EnumLoop(f, foc, st)

-----------------------------------------------------------------------------
(* The state machine of the axis iterators *)

Focus == [item |-> item, size |-> size, position |-> position, axis |-> axis]

NoStatus == [item |-> None, size |-> 0, position |-> 0, axis |-> "unset"]
NoLast == [gen |-> "None"]

\* A generator object just created: no line of its body has run.  pre (the
\* focus when it was created) and out (what was observed at each of its
\* yields) are records of the run, not variables of the source.
NewFrame(gen, arg) ==
    [gen |-> gen, arg |-> arg, pc |-> "start", status |-> NoStatus,
     nodes |-> <<>>, rest |-> <<>>, i |-> 0, elem |-> None, pre |-> Focus,
     out |-> <<>>]

Top == stack[Len(stack)]
Running(gen) == stack # <<>> /\ Top.gen = gen
State == [pm |-> parent_map, cache |-> cache]

\* The effect of one resume of the innermost generator.
Apply(r) ==
    /\ item' = r.foc.item
    /\ size' = r.foc.size
    /\ position' = r.foc.position
    /\ axis' = r.foc.axis
    /\ parent_map' = r.st.pm
    /\ cache' = r.st.cache
    /\ IF r.fin
       THEN /\ stack' = SubSeq(stack, 1, Len(stack) - 1)
            /\ last' = [gen |-> r.f.gen, arg |-> r.f.arg, pre |-> r.f.pre,
                        out |-> r.f.out, how |-> "return"]
       ELSE /\ stack' = [stack EXCEPT ![Len(stack)] =
                            [r.f EXCEPT !.out = Append(@,
                                [node |-> r.y[1], item |-> r.foc.item,
                                 size |-> r.foc.size,
                                 position |-> r.foc.position,
                                 axis |-> r.foc.axis])]]
            /\ last' = last
    /\ UNCHANGED others
    /\ UNCHANGED <<tree, root, variable_values>>

AxisNames == {NoAxis, "following-sibling", "preceding-sibling"}
DescendantAxes == {NoAxis, "descendant", "descendant-or-self"}
AncestorAxes == {NoAxis, "ancestor", "ancestor-or-self"}

\* The items a caller starts from: every element of the tree, two typed
\* wrappers, the first text node and the first attribute, an element that is
\* in no tree, and None; the document too when it is the root.
FirstOf(ns, kind) ==
    LET ks == {k \in 1..Len(ns) : ns[k].kind = kind}
    IN IF ks = {} THEN {} ELSE {ns[CHOOSE k \in ks : \A j \in ks : k <= j]}

StartItems(r) ==
    LET ns == etree_iter_nodes(r, TRUE, TRUE)
    IN {None, OutElem, TypedElement(1), TypedElement(tree.n)}
       \cup {Elem(i) : i \in 1..tree.n}
       \cup FirstOf(ns, "text") \cup FirstOf(ns, "attr") \cup FirstOf(ns, "doc")

\* The items given to iter_descendants(item=...).
ArgItems ==
    {Elem(i) : i \in 1..tree.n} \cup {TypedElement(tree.n)}
    \cup FirstOf(etree_iter_nodes(root, TRUE, FALSE), "text")

AxisCalls ==
    {[gen |-> "iter_self", arg |-> [none |-> TRUE]],
     [gen |-> "iter_attributes", arg |-> [none |-> TRUE]],
     [gen |-> "iter_parent", arg |-> [none |-> TRUE]],
     [gen |-> "iter_preceding", arg |-> [none |-> TRUE]],
     [gen |-> "iter_followings", arg |-> [none |-> TRUE]]}
    \cup {[gen |-> "iter_children_or_self", arg |-> [child_axis |-> b]] :
             b \in BOOLEAN}
    \cup {[gen |-> "iter_siblings", arg |-> [axis |-> a]] : a \in AxisNames}
    \cup {[gen |-> "iter_ancestors", arg |-> [axis |-> a]] : a \in AncestorAxes}
    \cup {[gen |-> "iter_descendants", arg |-> [item |-> None, axis |-> a]] :
             a \in DescendantAxes}

\* context.iter_xxx(...): the generator is created on an idle context.
Call ==
    /\ stack = <<>>
    /\ last = NoLast
    /\ \E c \in AxisCalls : stack' = <<NewFrame(c.gen, c.arg)>>
    /\ UNCHANGED others
    /\ UNCHANGED <<tree, root, item, position, size, axis, parent_map, cache,
                   variable_values, last>>

\* context.iter_descendants(item=x, axis=a) with an explicit item.
CallDescendantsOf ==
    /\ stack = <<>>
    /\ last = NoLast
    /\ \E x \in ArgItems, a \in {"descendant", "descendant-or-self"} :
          stack' = <<NewFrame("iter_descendants", [item |-> x, axis |-> a])>>
    /\ UNCHANGED others
    /\ UNCHANGED <<tree, root, item, position, size, axis, parent_map, cache,
                   variable_values, last>>

IterSelf == Running("iter_self") /\ \E r \in {iter_self(Top, Focus, State)} : Apply(r)
IterAttributes == Running("iter_attributes") /\ \E r \in {iter_attributes(Top, Focus, State)} : Apply(r)
IterChildrenOrSelf ==
    Running("iter_children_or_self") /\ \E r \in {iter_children_or_self(Top, Focus, State)} : Apply(r)
IterParent == Running("iter_parent") /\ \E r \in {iter_parent(Top, Focus, State)} : Apply(r)
IterSiblings == Running("iter_siblings") /\ \E r \in {iter_siblings(Top, Focus, State)} : Apply(r)
IterDescendants == Running("iter_descendants") /\ \E r \in {iter_descendants(Top, Focus, State)} : Apply(r)
IterAncestors == Running("iter_ancestors") /\ \E r \in {iter_ancestors(Top, Focus, State)} : Apply(r)
IterPreceding == Running("iter_preceding") /\ \E r \in {iter_preceding(Top, Focus, State)} : Apply(r)
IterFollowings == Running("iter_followings") /\ \E r \in {iter_followings(Top, Focus, State)} : Apply(r)

AxisGens ==
    {"iter_self", "iter_attributes", "iter_children_or_self", "iter_parent",
     "iter_siblings", "iter_descendants", "iter_ancestors", "iter_preceding",
     "iter_followings"}

\* Faulty variant: the generator leaves through a `finally` that assigns the
\* focus taken when it was called.
Throw_restoring ==
    /\ stack # <<>>
    /\ Top.gen \in AxisGens
    /\ Top.pc # "start"
    /\ stack' = SubSeq(stack, 1, Len(stack) - 1)
    /\ last' = [gen |-> Top.gen, arg |-> Top.arg, pre |-> Top.pre,
                out |-> Top.out, how |-> "throw"]
    /\ item' = Top.pre.item
    /\ position' = Top.pre.position
    /\ size' = Top.pre.size
    /\ axis' = Top.pre.axis
    /\ UNCHANGED others
    /\ UNCHANGED <<tree, root, parent_map, cache, variable_values>>

\* An exception raised at the yield where the innermost generator is
\* suspended (generator.throw, or GeneratorExit from close or from the
\* disposal of a generator that is not resumed any more): no generator
\* of the source has a try/finally, so the frame is left at once.
Throw ==
    /\ stack # <<>>
    /\ Top.gen \in AxisGens
    /\ Top.pc # "start"
    /\ stack' = SubSeq(stack, 1, Len(stack) - 1)
    /\ last' = [gen |-> Top.gen, arg |-> Top.arg, pre |-> Top.pre,
                out |-> Top.out, how |-> "throw"]
    /\ UNCHANGED others
    /\ UNCHANGED <<tree, root, item, position, size, axis, parent_map, cache,
                   variable_values>>

\* context.item = None (as the tests do on an element-rooted context).
AssignItemNone ==
    /\ stack = <<>>
    /\ last = NoLast
    /\ item # None
    /\ item' = None
    /\ UNCHANGED others
    /\ UNCHANGED <<tree, root, position, size, axis, parent_map, cache,
                   variable_values, stack, last>>

\* The trees: every shape of at most MaxElems elements (an element's parent
\* has a smaller number), text on every element or on none, tails likewise;
\* in a tree with text the last element (a leaf) may be a comment.
TreesOf(n) ==
    LET shapes == {q \in [2..n -> 1..n] : \A k \in 2..n : q[k] < k}
        plain == {[n |-> n, parent |-> p, text |-> t, tail |-> u, comment |-> {}] :
                     p \in shapes, t \in {{}, 1..n}, u \in {{}, 2..n}}
        commented == {[n |-> n, parent |-> p, text |-> 1..n, tail |-> u,
                       comment |-> {n}] : p \in shapes, u \in {{}, 2..n}}
    IN IF n = 1 THEN plain ELSE plain \cup commented

Trees == UNION {TreesOf(n) : n \in 1..MaxElems}

NoClone == [kind |-> "None"]

\* datetime.datetime and Timezone objects: a datetime is aware when its
\* tzinfo is not None.
Timezone(s) == [kind |-> "Timezone", name |-> s]
DateTime(tz) == [kind |-> "datetime", tzinfo |-> tz]
Str(s) == [kind |-> "str", value |-> s]

\* Timezone.fromstring(timezone)
fromstring(s) == Timezone(s.value)

\* datetime.datetime.now(tz=tz)
now(tz) == DateTime(tz)

\* if timezone is None or isinstance(timezone, Timezone): ... else: ...
InitTimezone(tz) ==
    IF tz = None \/ tz.kind = "Timezone" THEN tz ELSE fromstring(tz)

\* self.current_dt = current_dt or datetime.datetime.now(tz=self.timezone)
\* (a datetime object is never false).
InitCurrentDt(dt, tz) == IF dt # None THEN dt ELSE now(InitTimezone(tz))

\* Faulty variant: the tag of the root is not looked at.
ValidRoot_any_tag(r) == is_etree_element(r) \/ is_document_node(r)

\* The root is accepted by __init__ (else ElementPathTypeError is raised).
ValidRoot(r) ==
    \/ is_etree_element(r) /\ ~callable_tag(r)
    \/ is_document_node(r)

\* The item and the _elem that __init__ sets for an accepted root; _elem is
\* not assigned for a document (the class attribute None is read).
InitItem(r, it) ==
    IF is_etree_element(r) /\ ~callable_tag(r)
    THEN IF it = None THEN [item |-> r, _elem |-> r]
         ELSE IF is_etree_element(it) /\ ~callable_tag(r)
              THEN [item |-> it, _elem |-> it]
         ELSE [item |-> it, _elem |-> r]
    ELSE [item |-> it, _elem |-> None]

\* XPathContext.__init__: the item given, or the root element when none is
\* given and the root is an element.
InitContext(r, it, pos, sz, ax) ==
    /\ _elem = InitItem(r, it)._elem
    /\ timezone = None
    /\ current_dt = InitCurrentDt(None, None)
    /\ clone = NoClone
    /\ root = r
    /\ item = IF is_document_node(r) THEN it
              ELSE IF it = None THEN r ELSE it
    /\ position = pos
    /\ size = sz
    /\ axis = ax
    /\ parent_map = NoMap
    /\ cache = {}
    /\ variable_values = <<>>
    /\ stack = <<>>
    /\ last = NoLast

\* The (position, size, axis) a context is constructed with.
InitFocus == {<<2, 3, NoAxis>>, <<2, 3, "attribute">>, <<1, 1, "child">>}

Init ==
    /\ tree \in Trees
    /\ \E r \in {Elem(1), Doc} :
       \E it \in StartItems(r), ps \in InitFocus :
          InitContext(r, it, ps[1], ps[2], ps[3])

Next ==
    \/ Call
    \/ CallDescendantsOf
    \/ AssignItemNone
    \/ IterSelf
    \/ IterAttributes
    \/ IterChildrenOrSelf
    \/ IterParent
    \/ IterSiblings
    \/ IterDescendants
    \/ IterAncestors
    \/ IterPreceding
    \/ IterFollowings
    \/ Throw

Spec == Init /\ [][Next]_vars

-----------------------------------------------------------------------------
(* Focus save and restore *)

Finished(how) == last.gen \in AxisGens /\ last.how = how

\* C1: once any axis iterator has run to normal completion, the context's
\* (item, position, size, axis) equals its value just before the call, also
\* when the iteration yielded nothing.
C1_FocusRestoredOnCompletion == Finished("return") => Focus = last.pre

\* C2: when an axis iterator ends by an exception raised at one of its
\* yields, the focus taken at entry is restored as on normal completion.
C2_FocusRestoredOnException == Finished("throw") => Focus = last.pre

-----------------------------------------------------------------------------
(* What a traversal yields, run from a given focus to its end *)

Step(f, foc, st) ==
    CASE f.gen = "iter_self" -> iter_self(f, foc, st)
      [] f.gen = "iter_attributes" -> iter_attributes(f, foc, st)
      [] f.gen = "iter_children_or_self" -> iter_children_or_self(f, foc, st)
      [] f.gen = "iter_parent" -> iter_parent(f, foc, st)
      [] f.gen = "iter_siblings" -> iter_siblings(f, foc, st)
      [] f.gen = "iter_descendants" -> iter_descendants(f, foc, st)
      [] f.gen = "iter_ancestors" -> iter_ancestors(f, foc, st)
      [] f.gen = "iter_preceding" -> iter_preceding(f, foc, st)
      [] f.gen = "iter_followings" -> iter_followings(f, foc, st)

\* list(generator): the values yielded until the generator ends.
RECURSIVE RunAll(_)
RunAll(r) ==
    IF r.fin THEN <<>>
    ELSE <<r.y[1]>> \o RunAll(Step(r.f, r.foc, r.st))

\* list(context.gen(arg)) on a context whose focus is foc.
AxisOutput(gen, arg, foc) == RunAll(Step(NewFrame(gen, arg), foc, State))

OutNodes(out) == [k \in 1..Len(out) |-> out[k].node]

NoArg == [none |-> TRUE]

\* The finished traversal was gen(arg), it ended normally and it started on
\* an element of the tree other than the root (possibly typed, no comment).
RanFrom(gen) ==
    /\ last.gen = gen
    /\ last.how = "return"
    /\ is_element_node(last.pre.item)
    /\ InTree(Unwrap(last.pre.item))
    /\ Unwrap(last.pre.item) # RootElem

\* All the nodes (elements and text nodes) of the tree under the root.
AllNodes == etree_iter_nodes(RootElem, TRUE, FALSE)

\* C5: with an element root r and an element e other than r, what
\* iter_preceding, iter_ancestors('ancestor'), iter_descendants(axis=
\* 'descendant') and iter_followings yield from e, together with e, are
\* pairwise disjoint and make up all the nodes of the tree.
C5_ComplementLaw ==
    (RanFrom("iter_preceding") /\ is_etree_element(root)) =>
        LET e == Unwrap(last.pre.item)
            foc == last.pre
            parts == OutNodes(last.out)
                     \o AxisOutput("iter_ancestors", [axis |-> "ancestor"], foc)
                     \o <<e>>
                     \o AxisOutput("iter_descendants",
                                   [item |-> None, axis |-> "descendant"], foc)
                     \o AxisOutput("iter_followings", NoArg, foc)
        IN /\ Cardinality(Range(parts)) = Len(parts)
           /\ Range(parts) = Range(AllNodes)

\* The place of an element among the elements of the tree.
DocIndex(e) == CHOOSE k \in 1..Len(RootIter(root)) : RootIter(root)[k] = e

\* The elements of a sequence put in document order.
RECURSIVE InDocOrder(_)
InDocOrder(S) ==
    IF S = {} THEN <<>>
    ELSE LET m == CHOOSE x \in S : \A y \in S : DocIndex(x) <= DocIndex(y)
         IN <<m>> \o InDocOrder(S \ {m})

\* C6: for a non-root element e, the preceding siblings in document order,
\* then e, then the following siblings are exactly the child list of
\* get_parent(e), nothing missing and nothing twice.
C6_SiblingPartition ==
    (RanFrom("iter_siblings") /\ last.arg.axis = "preceding-sibling") =>
        LET e == Unwrap(last.pre.item)
            before == OutNodes(last.out)
            after == AxisOutput("iter_siblings",
                                [axis |-> "following-sibling"], last.pre)
        IN /\ Cardinality(Range(before)) = Len(before)
           /\ InDocOrder(Range(before)) \o <<e>> \o after
                 = ElemChildren(get_parent(State, e).res)

\* A preceding-sibling traversal has ended for an element that has siblings
\* on both sides.
C6_Witness ==
    /\ RanFrom("iter_siblings")
    /\ last.arg.axis = "preceding-sibling"
    /\ Len(last.out) >= 1
    /\ Len(AxisOutput("iter_siblings", [axis |-> "following-sibling"], last.pre)) >= 1

\* The item a finished iter_descendants started on (its argument if given).
DescItem == Unwrap(IF last.arg.item # None THEN last.arg.item ELSE last.pre.item)

\* C7: for an element item e, descendant-or-self yields e followed by what
\* descendant yields, and descendant never yields e.
C7_DescendantOrSelf ==
    (/\ last.gen = "iter_descendants"
     /\ last.how = "return"
     /\ last.arg.axis = "descendant-or-self"
     /\ is_element_node(DescItem)) =>
        LET d == AxisOutput("iter_descendants",
                            [item |-> last.arg.item, axis |-> "descendant"],
                            last.pre)
        IN /\ OutNodes(last.out) = <<DescItem>> \o d
           /\ DescItem \notin Range(d)

\* A descendant-or-self traversal of an element with descendants has ended.
C7_Witness ==
    /\ last.gen = "iter_descendants"
    /\ last.how = "return"
    /\ last.arg.axis = "descendant-or-self"
    /\ is_element_node(DescItem)
    /\ Len(last.out) >= 4
    /\ \E k \in 1..Len(last.out) : last.out[k].node.kind = "text"

-----------------------------------------------------------------------------
(* get_parent, the parent_map property and get_path on their own *)

\* No generator is live and get_path has not been called yet.
IdleParent == stack = <<>> /\ last.gen \in {"None", "get_parent"}

Seen == IF last.gen = "None" THEN {} ELSE last.seen

\* What callers hand to get_parent: the elements of the tree, a typed
\* wrapper, an element of no tree.
ParentArgs ==
    {Elem(i) : i \in 1..tree.n} \cup {TypedElement(tree.n), OutElem}

\* context.get_parent(x); seen collects every (argument, result) so far.
GetParent ==
    /\ IdleParent
    /\ \E x \in ParentArgs :
       \E r \in {get_parent(State, x)} :
          /\ parent_map' = r.pm
          /\ cache' = r.cache
          /\ last' = [gen |-> "get_parent", seen |-> Seen \cup {<<x, r.res>>}]
    /\ UNCHANGED others
    /\ UNCHANGED <<tree, root, item, position, size, axis, variable_values, stack>>

\* The property parent_map: the map is built when there is none.
ReadParentMap ==
    /\ IdleParent
    /\ parent_map = NoMap
    /\ parent_map' = BuildParentMap
    /\ UNCHANGED others
    /\ UNCHANGED <<tree, root, item, position, size, axis, cache,
                   variable_values, stack, last>>

\* context.get_path(x) for an element or a typed element: the frame holds the
\* loop's item and path (the tags are the elements' numbers).
CallGetPath ==
    /\ IdleParent
    /\ \E x \in ParentArgs :
          stack' = <<[gen |-> "get_path", arg |-> x, item |-> Unwrap(x),
                      path |-> <<>>]>>
    /\ UNCHANGED others
    /\ UNCHANGED <<tree, root, item, position, size, axis, parent_map, cache,
                   variable_values, last>>

\* One turn of `while True: parent = self.get_parent(item); path.append(item.tag);
\* if parent is None: return ...; item = parent`.
GetPathLoop ==
    /\ Running("get_path")
    /\ \E r \in {get_parent(State, Top.item)} :
          /\ parent_map' = r.pm
          /\ cache' = r.cache
          /\ IF r.res = None
             THEN /\ stack' = <<>>
                  /\ last' = [gen |-> "get_path", arg |-> Top.arg,
                              res |-> Reverse(Append(Top.path, Top.item.id)),
                              seen |-> Seen]
             ELSE /\ stack' = <<[Top EXCEPT !.item = r.res,
                                            !.path = Append(@, Top.item.id)]>>
                  /\ last' = last
    /\ UNCHANGED others
    /\ UNCHANGED <<tree, root, item, position, size, axis, variable_values>>

\* The trees without text, tails or comments: get_parent reads the shape only.
BareTrees == {t \in Trees : t.text = {} /\ t.tail = {} /\ t.comment = {}}

InitParent ==
    /\ tree \in BareTrees
    /\ \E r \in {Elem(1), Doc} : InitContext(r, None, 1, 1, NoAxis)

NextParent ==
    \/ GetParent
    \/ ReadParentMap
    \/ CallGetPath
    \/ GetPathLoop

SpecParent == InitParent /\ [][NextParent]_vars

\* The number of elements on the longest path from the root element down.
RECURSIVE Level(_)
Level(i) == IF i = 1 THEN 1 ELSE 1 + Level(tree.parent[i])
TreeDepth == CHOOSE d \in 1..tree.n :
                 /\ \E i \in 1..tree.n : Level(i) = d
                 /\ \A i \in 1..tree.n : Level(i) <= d

IsChildOf(e, p) == InTree(e) /\ InTree(p) /\ e.id # 1 /\ tree.parent[e.id] = p.id

\* C3: get_parent of a non-root element of the tree is an element that has it
\* among its children; get_parent of the root element is None; a typed wrapper
\* gets what its element gets; repeated calls give the same result.
C3_ParentInversion ==
    last.gen = "get_parent" =>
        /\ \A p \in last.seen :
              LET e == Unwrap(p[1])
              IN /\ (InTree(e) /\ e.id # 1) =>
                        /\ IsChildOf(e, p[2])
                        /\ \E k \in 1..Len(Children(p[2].id)) :
                              Children(p[2].id)[k] = e.id
                 /\ e = Elem(1) => p[2] = None
        /\ \A p, q \in last.seen : Unwrap(p[1]) = Unwrap(q[1]) => p[2] = q[2]

\* get_parent has returned for the root element, for a typed wrapper of an
\* element that has a parent, and for that element itself.
C3_Witness ==
    /\ last.gen = "get_parent"
    /\ \E p, q, r \in last.seen :
          /\ p[1].kind = "typed" /\ q[1] = p[1].elem /\ p[2] # None
          /\ r[1] = Elem(1)

\* C4: from any element the chain e, get_parent(e), get_parent(get_parent(e)),
\* ... reaches None after at most as many steps as the tree has levels, so the
\* loop of get_path ends.
C4_AncestorChainBounded ==
    /\ Running("get_path") => Len(Top.path) < TreeDepth
    /\ last.gen = "get_path" => Len(last.res) <= TreeDepth

\* get_path has returned for an element on the lowest level of a tree of
\* three levels or more.
C4_Witness ==
    /\ last.gen = "get_path"
    /\ TreeDepth >= 3
    /\ Len(last.res) = TreeDepth

-----------------------------------------------------------------------------
(* iter_product *)

\* A selector: lambda context: iter([1, ..., n]).
Selector(n) == [v \in 1..n |-> v]

NoNames == [kind |-> "None"]
NameList(ns) == [kind |-> "list", names |-> ns]

\* The arguments of a call: up to MaxDim selectors of up to MaxSel values,
\* and varnames None or a list of up to MaxDim names.  Names are told apart
\* by a number: the j-th name of a list is a name of its own (j) or the one
\* name that several coordinates share (0).
SelectorLists ==
    UNION {[1..d -> {Selector(n) : n \in 0..MaxSel}] : d \in 0..MaxDim}
VarnameLists ==
    {NoNames}
    \cup UNION {{NameList([j \in 1..d |-> IF own[j] THEN j ELSE 0]) :
                    own \in [1..d -> BOOLEAN]} : d \in 0..MaxDim}

NoVariables == [n \in {} |-> 0]

\* Faulty variant: the value is always stored under the first name.
Bind_first(vv, varnames, k, value) ==
    IF varnames = NoNames \/ k >= Len(varnames.names) THEN vv
    ELSE [n \in DOMAIN vv \cup {varnames.names[1]} |->
             IF n = varnames.names[1] THEN value ELSE vv[n]]

\* try: self.variable_values[varnames[k]] = value
\* except (TypeError, IndexError): pass
Bind(vv, varnames, k, value) ==
    IF varnames = NoNames \/ k >= Len(varnames.names) THEN vv
    ELSE [n \in DOMAIN vv \cup {varnames.names[k + 1]} |->
             IF n = varnames.names[k + 1] THEN value ELSE vv[n]]

\* Faulty variant: an exhausted inner iterator is not made anew.
ProductTurn_noreset(f, vv) ==
    LET k == f.k
        taken == f.iterators[k + 1]
        values == f.selectors[k + 1]
        h == [f EXCEPT !.turns = @ + 1]
    IN IF taken >= Len(values)
       THEN IF k = 0
            THEN [f |-> h, vv |-> vv, y |-> <<>>, how |-> "return"]
            ELSE [f |-> [h EXCEPT !.k = k - 1],
                  vv |-> vv, y |-> <<>>, how |-> "loop"]
       ELSE LET value == values[taken + 1]
                g == [h EXCEPT !.iterators[k + 1] = taken + 1,
                               !.prod[k + 1] = value]
                ww == Bind(vv, f.varnames, k, value)
            IN IF k = Len(f.selectors) - 1
               THEN [f |-> g, vv |-> ww, y |-> <<g.prod>>, how |-> "yield"]
               ELSE [f |-> [g EXCEPT !.k = k + 1],
                     vv |-> ww, y |-> <<>>, how |-> "loop"]

\* One turn of the `while True` loop: it returns, goes round again ("loop")
\* or yields.  iterators[k] is kept as the number of values already taken
\* from it (k counts from 0 as in the source); turns counts the turns made.
ProductTurn(f, vv) ==
    LET k == f.k
        taken == f.iterators[k + 1]
        values == f.selectors[k + 1]
        h == [f EXCEPT !.turns = @ + 1]
    IN IF taken >= Len(values)
       THEN IF k = 0
            THEN [f |-> h, vv |-> vv, y |-> <<>>, how |-> "return"]
            ELSE [f |-> [h EXCEPT !.iterators[k + 1] = 0, !.k = k - 1],
                  vv |-> vv, y |-> <<>>, how |-> "loop"]
       ELSE LET value == values[taken + 1]
                g == [h EXCEPT !.iterators[k + 1] = taken + 1,
                               !.prod[k + 1] = value]
                ww == Bind(vv, f.varnames, k, value)
            IN IF k = Len(f.selectors) - 1
               THEN [f |-> g, vv |-> ww, y |-> <<g.prod>>, how |-> "yield"]
               ELSE [f |-> [g EXCEPT !.k = k + 1],
                     vv |-> ww, y |-> <<>>, how |-> "loop"]

\* The lines before the loop and its first turn, or one more turn.  With no
\* selector, next(iterators[0]) raises IndexError.
iter_product(f, vv) ==
    IF f.pc = "start"
    THEN LET dimension == Len(f.selectors)
             g == [f EXCEPT !.pc = "loop",
                            !.iterators = [j \in 1..dimension |-> 0],
                            !.prod = [j \in 1..dimension |-> None],
                            !.k = 0]
         IN IF dimension = 0
            THEN [f |-> g, vv |-> vv, y |-> <<>>, how |-> "IndexError"]
            ELSE ProductTurn(g, vv)
    ELSE ProductTurn(f, vv)

ProductFrame(selectors, varnames) ==
    [gen |-> "iter_product", selectors |-> selectors, varnames |-> varnames,
     pc |-> "start", iterators |-> <<>>, prod |-> <<>>, k |-> 0,
     pre |-> Focus, out |-> <<>>, turns |-> 0]

\* context.iter_product(selectors, varnames)
CallProduct ==
    /\ stack = <<>>
    /\ last = NoLast
    /\ \E ss \in SelectorLists, vn \in VarnameLists :
          stack' = <<ProductFrame(ss, vn)>>
    /\ UNCHANGED others
    /\ UNCHANGED <<tree, root, item, position, size, axis, parent_map, cache,
                   variable_values, last>>

\* The generator runs one turn of its loop: out records the tuple yielded
\* and the variables as they are at that yield.
IterProduct ==
    /\ Running("iter_product")
    /\ \E r \in {iter_product(Top, variable_values)} :
          /\ variable_values' = r.vv
          /\ IF r.how \in {"return", "IndexError"}
             THEN /\ stack' = <<>>
                  /\ last' = [gen |-> "iter_product",
                              selectors |-> r.f.selectors,
                              varnames |-> r.f.varnames,
                              iterators |-> r.f.iterators, k |-> r.f.k,
                              pre |-> r.f.pre, out |-> r.f.out,
                              turns |-> r.f.turns, how |-> r.how]
             ELSE /\ stack' = <<IF r.how = "yield"
                                THEN [r.f EXCEPT !.out =
                                        Append(@, [tuple |-> r.y[1], vars |-> r.vv])]
                                ELSE r.f>>
                  /\ last' = last
    /\ UNCHANGED others
    /\ UNCHANGED <<tree, root, item, position, size, axis, parent_map, cache>>

OneElement == [n |-> 1, parent |-> <<>>, text |-> {}, tail |-> {}, comment |-> {}]

InitProduct ==
    /\ tree = OneElement
    /\ root = Elem(1)
    /\ item = Elem(1)
    /\ position = 1
    /\ size = 1
    /\ axis = NoAxis
    /\ parent_map = NoMap
    /\ cache = {}
    /\ variable_values = NoVariables
    /\ stack = <<>>
    /\ last = NoLast
    /\ _elem = Elem(1)
    /\ timezone = None
    /\ current_dt = InitCurrentDt(None, None)
    /\ clone = NoClone

NextProduct ==
    \/ CallProduct
    \/ IterProduct

SpecProduct == InitProduct /\ [][NextProduct]_vars

Sizes(selectors) == [j \in 1..Len(selectors) |-> Len(selectors[j])]

RECURSIVE Prod(_)
Prod(ns) == IF ns = <<>> THEN 1 ELSE Head(ns) * Prod(Tail(ns))

\* The calls of next() a full run makes: every iterator made for
\* coordinate j gives its n_j values and then stops, and one is made for
\* each combination of the coordinates before j.
RECURSIVE Turns(_, _)
Turns(ns, made) ==
    IF ns = <<>> THEN 0
    ELSE made * (Head(ns) + 1) + Turns(Tail(ns), made * Head(ns))

\* C8: iter_product over k >= 1 selectors producing n_1..n_k values never
\* yields more than n_1 * ... * n_k tuples nor makes more turns of its loop
\* than a full run needs, and when it ends it has yielded exactly that many
\* tuples, each of length k, and it ends at k = 0 with the iterator of
\* index 0 exhausted.
C8_ProductCardinality ==
    /\ (Running("iter_product") /\ Len(Top.selectors) >= 1) =>
          /\ Len(Top.out) <= Prod(Sizes(Top.selectors))
          /\ Top.turns < Turns(Sizes(Top.selectors), 1)
    /\ (last.gen = "iter_product" /\ Len(last.selectors) >= 1) =>
          /\ last.how = "return"
          /\ last.turns = Turns(Sizes(last.selectors), 1)
          /\ Len(last.out) = Prod(Sizes(last.selectors))
          /\ \A t \in 1..Len(last.out) :
                Len(last.out[t].tuple) = Len(last.selectors)
          /\ last.k = 0
          /\ last.iterators[1] = Len(last.selectors[1])

\* A product of three selectors has ended after four tuples or more.
C8_Witness ==
    /\ last.gen = "iter_product"
    /\ last.how = "return"
    /\ Len(last.selectors) = 3
    /\ Len(last.out) >= 4

\* The tuples over 1..n_1, ..., 1..n_k in lexicographic order.
RECURSIVE LexTuples(_), LexFrom(_, _)
LexFrom(v, ns) ==
    IF v > Head(ns) THEN <<>>
    ELSE LET inner == LexTuples(Tail(ns))
         IN [t \in 1..Len(inner) |-> <<v>> \o inner[t]] \o LexFrom(v + 1, ns)
LexTuples(ns) == IF ns = <<>> THEN << <<>> >> ELSE LexFrom(1, ns)

\* The runs of iter_product, under way or ended.
ProductRuns ==
    (IF Running("iter_product") THEN {Top} ELSE {})
    \cup (IF last.gen = "iter_product" THEN {last} ELSE {})

\* The tuples come in lexicographic order: what has been yielded so far is
\* the beginning of the lexicographic list, and all of it at the end.
LexOrdered(run) ==
    LET lex == LexTuples(Sizes(run.selectors))
        n == Len(run.out)
    IN /\ n <= Len(lex)
       /\ \A t \in 1..n : run.out[t].tuple = lex[t]

\* The coordinates that have a name.
Named(run) ==
    IF run.varnames = NoNames THEN {}
    ELSE {j \in 1..Len(run.varnames.names) : j <= Len(run.selectors)}

BoundAt(run, t, j) ==
    LET name == run.varnames.names[j]
    IN /\ name \in DOMAIN run.out[t].vars
       /\ run.out[t].vars[name] = run.out[t].tuple[j]

\* C9 as stated: the tuples come in lexicographic order, at every yield
\* variable_values[varnames[j]] is the j-th component of the tuple for every
\* named coordinate j, and no call with names missing raises.
C9_LexOrderBindingsAll ==
    \A run \in ProductRuns :
        Len(run.selectors) >= 1 =>
            /\ LexOrdered(run)
            /\ \A t \in 1..Len(run.out) : \A j \in Named(run) : BoundAt(run, t, j)
            /\ (run = last) => last.how = "return"

\* The coordinates whose name no later coordinate carries too.
LastNamed(run) ==
    {j \in Named(run) :
        \A h \in Named(run) :
            h > j => run.varnames.names[h] # run.varnames.names[j]}

\* C9 (amended): the tuples come in lexicographic order, at every yield
\* variable_values[varnames[j]] is the j-th component of the tuple for every
\* named coordinate j whose name is not repeated at a later coordinate (a
\* repeated name holds the value of its last coordinate), and no call with
\* names missing raises.
C9_LexOrderBindings ==
    \A run \in ProductRuns :
        Len(run.selectors) >= 1 =>
            /\ LexOrdered(run)
            /\ \A t \in 1..Len(run.out) : \A j \in LastNamed(run) : BoundAt(run, t, j)
            /\ (run = last) => last.how = "return"

\* A product of two selectors of two values under two names, one of them
\* possibly repeated, has ended.
C9_Witness ==
    /\ last.gen = "iter_product"
    /\ last.how = "return"
    /\ last.varnames # NoNames
    /\ Len(last.varnames.names) >= 2
    /\ Len(last.selectors) >= 2
    /\ Len(last.out) >= 4

-----------------------------------------------------------------------------
(* iter_results *)

\* Faulty variant: the loop runs over the results as given, not over the tree.
ResultsWalk_results(r, results) == results

\* self._iter_nodes(root, with_attributes=True)
ResultsWalk(r, results) == etree_iter_nodes(r, TRUE, TRUE)

\* Faulty variant: a typed element of results makes the loop yield the bare
\* element it wraps.
Hits_bare(x, results) ==
    IF PyIn(x, results) THEN <<x>>
    ELSE IF x.kind = "attr"
         THEN SelectSeq(results,
                  LAMBDA a : a.kind = "typedattr" /\ PyEq(a.attribute, x))
    ELSE IF is_etree_element(x)
         THEN [k \in 1..Len(SelectSeq(results,
                            LAMBDA e : e.kind = "typed" /\ e.elem = x)) |-> x]
    ELSE <<>>

\* What the body of the loop yields for one node of the walk: the node when
\* it is `in results`, else the typed attributes (typed elements) of results
\* that wrap it, in the order of results.
Hits(x, results) ==
    IF PyIn(x, results) THEN <<x>>
    ELSE IF x.kind = "attr"
         THEN SelectSeq(results,
                  LAMBDA a : a.kind = "typedattr" /\ PyEq(a.attribute, x))
    ELSE IF is_etree_element(x)
         THEN SelectSeq(results, LAMBDA e : e.kind = "typed" /\ e.elem = x)
    ELSE <<>>

\* One resume of iter_results.  rest holds what the inner `for` has still to
\* yield for the node the walk is on; status keeps item, size and position
\* only, and axis is never assigned.
iter_results(f, foc, st) ==
    LET g == IF f.pc = "start"
             THEN [f EXCEPT !.pc = "loop",
                            !.status = [foc EXCEPT !.axis = "unset"],
                            !.nodes = ResultsWalk(RootElem, f.arg.results)]
             ELSE f
        foc1 == IF f.pc = "start"
                THEN [foc EXCEPT !.size = Len(f.arg.results)]
                ELSE foc
        js == {j \in (g.i + 1)..Len(g.nodes) :
                  Hits(g.nodes[j], g.arg.results) # <<>>}
    IN IF g.rest # <<>>
       THEN Yield([g EXCEPT !.rest = Tail(@)], foc1, st, Head(g.rest))
       ELSE IF js = {}
       THEN Return(g, [foc1 EXCEPT !.item = g.status.item,
                                   !.size = g.status.size,
                                   !.position = g.status.position], st)
       ELSE LET j == CHOOSE m \in js : \A h \in js : m <= h
                hs == Hits(g.nodes[j], g.arg.results)
            IN Yield([g EXCEPT !.i = j, !.rest = Tail(hs)],
                     [foc1 EXCEPT !.position = j, !.item = g.nodes[j]],
                     st, Head(hs))

\* The nodes a results list is made of: the root element, the last element
\* bare and typed, an element of no tree bare and typed, the first text
\* node, the first attribute bare and typed.
ResultItems ==
    LET ns == etree_iter_nodes(RootElem, TRUE, TRUE)
    IN {Elem(1), Elem(tree.n), TypedElement(tree.n), OutElem, TypedElement(0)}
       \cup FirstOf(ns, "text") \cup FirstOf(ns, "attr")
       \cup {TypedAttribute(a) : a \in FirstOf(ns, "attr")}

ResultLists == UNION {[1..d -> ResultItems] : d \in 0..MaxResults}

\* context.iter_results(results)
CallResults ==
    /\ stack = <<>>
    /\ last = NoLast
    /\ \E rs \in ResultLists :
          stack' = <<NewFrame("iter_results", [results |-> rs])>>
    /\ UNCHANGED others
    /\ UNCHANGED <<tree, root, item, position, size, axis, parent_map, cache,
                   variable_values, last>>

IterResults == Running("iter_results") /\ \E r \in {iter_results(Top, Focus, State)} : Apply(r)

-----------------------------------------------------------------------------
(* copy() and iter_selector *)

\* The context as an object.  alias tells whether the object's
\* variable_values is the very dict of the context of the model (for the
\* context itself it is); cache holds the entries of the lru_cache made for
\* the object and run the generators created on it.
Self ==
    [kind |-> "context", root |-> root, item |-> item, position |-> position,
     size |-> size, axis |-> axis, _elem |-> _elem, parent_map |-> parent_map,
     alias |-> TRUE, variable_values |-> variable_values,
     current_dt |-> current_dt, timezone |-> timezone,
     cache |-> cache, run |-> stack]

\* Faulty variant: self.variable_values = variable_values (the same dict).
CopyVariables_same(vv) == [alias |-> TRUE, map |-> vv]

\* self.variable_values = {k: v for k, v in variable_values.items()}
CopyVariables(vv) == [alias |-> FALSE, map |-> vv]

\* Faulty variant: `if self.item is None: obj.item = None` is missing.
copy_keeps_init_item(self) ==
    LET made == InitItem(self.root, self.item)
        values == CopyVariables(self.variable_values)
    IN [kind |-> "context", root |-> self.root, item |-> made.item,
        position |-> self.position, size |-> self.size, axis |-> NoAxis,
        _elem |-> self._elem, parent_map |-> self.parent_map,
        alias |-> self.alias /\ values.alias, variable_values |-> values.map,
        current_dt |-> InitCurrentDt(self.current_dt, self.timezone),
        timezone |-> InitTimezone(self.timezone),
        cache |-> {}, run |-> <<>>]

\* XPathContext.__copy__: a context made by __init__ from the attributes of
\* self with axis=None, then item, _elem and _parent_map set from self.
copy_(self) ==
    LET made == InitItem(self.root, self.item)
        values == CopyVariables(self.variable_values)
    IN [kind |-> "context", root |-> self.root,
        item |-> IF self.item = None THEN None ELSE made.item,
        position |-> self.position, size |-> self.size, axis |-> NoAxis,
        _elem |-> self._elem, parent_map |-> self.parent_map,
        alias |-> self.alias /\ values.alias, variable_values |-> values.map,
        current_dt |-> InitCurrentDt(self.current_dt, self.timezone),
        timezone |-> InitTimezone(self.timezone),
        cache |-> {}, run |-> <<>>]

\* XPathContext.copy
copy(self, clear_axis) ==
    IF clear_axis THEN copy_(self)
    ELSE [copy_(self) EXCEPT !.axis = self.axis]

\* A selector: a generator function that produces values and that may work
\* on the context it is given (it leaves a child traversal unfinished on the
\* root element and binds the variable 0).
Selectors ==
    LET ns == etree_iter_nodes(RootElem, TRUE, FALSE)
        items == {Elem(1), Elem(tree.n)} \cup FirstOf(ns, "text")
    IN {[values |-> vs, touches |-> b] :
           vs \in UNION {[1..d -> items] : d \in 0..MaxResults}, b \in BOOLEAN}

\* The context a selector leaves behind.
Touch(ctx, selector) ==
    IF selector.touches
    THEN [ctx EXCEPT !.item = RootElem, !.size = 1, !.position = 1,
                     !.axis = "child",
                     !.variable_values = Bind(@, NameList(<<0>>), 0, 7)]
    ELSE ctx

\* Faulty variant: selector(self).
SelectorArg_self(self) == [same |-> TRUE, ctx |-> self]

\* The argument of the selector: self.copy()
SelectorArg(self) == [same |-> FALSE, ctx |-> copy(self, TRUE)]

\* for self.position, self.item in enumerate(results, start=1): yield
\* and then: self.item, self.size, self.position = status
SelectorLoop(f, self, cl) ==
    IF f.i < Len(f.nodes)
    THEN LET k == f.i + 1
         IN [f |-> [f EXCEPT !.i = k],
             self |-> [self EXCEPT !.position = k, !.item = f.nodes[k]],
             clone |-> cl, y |-> <<f.nodes[k]>>, fin |-> FALSE]
    ELSE [f |-> f,
          self |-> [self EXCEPT !.item = f.status.item, !.size = f.status.size,
                                !.position = f.status.position],
          clone |-> cl, y |-> <<>>, fin |-> TRUE]

\* One resume of iter_selector.  What the selector did to its argument shows
\* in the clone, or in the context when the argument is the context; a dict
\* that both share shows it in both.
iter_selector(f, self, cl) ==
    IF f.pc = "start"
    THEN LET given == SelectorArg(self)
             after == Touch(given.ctx, f.arg.selector)
             self1 == IF given.same THEN after
                      ELSE IF after.alias
                           THEN [self EXCEPT !.variable_values = after.variable_values]
                      ELSE self
             cl1 == IF given.same THEN cl ELSE after
             results == f.arg.selector.values
             g == [f EXCEPT !.pc = "loop",
                            !.status = [item |-> self.item, size |-> self.size,
                                        position |-> self.position,
                                        axis |-> "unset"],
                            !.nodes = results,
                            !.calls = @ + 1]
         IN SelectorLoop(g, [self1 EXCEPT !.size = Len(results)], cl1)
    ELSE SelectorLoop(f, self, cl)

\* The generator object of iter_selector: calls counts the calls of the
\* selector, vars keeps the variables as they were at the call.
SelectorFrame(selector) ==
    [gen |-> "iter_selector", arg |-> [selector |-> selector], pc |-> "start",
     status |-> NoStatus, nodes |-> <<>>, rest |-> <<>>, i |-> 0,
     elem |-> None, pre |-> Focus, out |-> <<>>, calls |-> 0,
     vars |-> variable_values]

\* context.iter_selector(selector)
CallSelector ==
    /\ stack = <<>>
    /\ last = NoLast
    /\ \E sel \in Selectors : stack' = <<SelectorFrame(sel)>>
    /\ UNCHANGED others
    /\ UNCHANGED <<tree, root, item, position, size, axis, parent_map, cache,
                   variable_values, last>>

IterSelector ==
    /\ Running("iter_selector")
    /\ \E r \in {iter_selector(Top, Self, clone)} :
          /\ item' = r.self.item
          /\ size' = r.self.size
          /\ position' = r.self.position
          /\ axis' = r.self.axis
          /\ variable_values' = r.self.variable_values
          /\ clone' = r.clone
          /\ IF r.fin
             THEN /\ stack' = SubSeq(stack, 1, Len(stack) - 1)
                  /\ last' = [gen |-> r.f.gen, arg |-> r.f.arg, pre |-> r.f.pre,
                              out |-> r.f.out, calls |-> r.f.calls,
                              vars |-> r.f.vars, pc |-> r.f.pc,
                              how |-> "return"]
             ELSE /\ stack' = [stack EXCEPT ![Len(stack)] =
                                  [r.f EXCEPT !.out = Append(@,
                                      [node |-> r.y[1], item |-> r.self.item,
                                       size |-> r.self.size,
                                       position |-> r.self.position,
                                       axis |-> r.self.axis,
                                       vars |-> r.self.variable_values])]]
                  /\ last' = last
    /\ UNCHANGED <<tree, root, parent_map, cache, _elem, current_dt, timezone>>

\* A context on its root, made with position 2 of 3 and an axis, over a
\* tree without tails.
InitResults ==
    /\ tree \in {t \in Trees : t.tail = {}}
    /\ \E r \in {Elem(1), Doc} : InitContext(r, None, 2, 3, "attribute")

NextResults ==
    \/ CallResults
    \/ IterResults
    \/ CallSelector
    \/ IterSelector

SpecResults == InitResults /\ [][NextResults]_vars

\* The output y stands for the node w of the tree: it is w, or a typed
\* wrapper of w.
StandsFor(y, w) ==
    \/ y = w
    \/ y.kind = "typed" /\ y.elem = w
    \/ y.kind = "typedattr" /\ w.kind = "attr" /\ PyEq(y.attribute, w)

\* C10: every output of iter_results stands for the node of the document
\* walk at the position where it was yielded, these positions never go
\* back, whatever the order of results; axis is the same at every yield and
\* at the end, and after a normal end item, size and position are as before
\* the call.
C10_ResultsDocumentOrder ==
    LET walk == etree_iter_nodes(RootElem, TRUE, TRUE)
        InOrder(out, pre) ==
            /\ \A t \in 1..Len(out) :
                  /\ out[t].position \in 1..Len(walk)
                  /\ StandsFor(out[t].node, walk[out[t].position])
                  /\ out[t].axis = pre.axis
            /\ \A t \in 1..(Len(out) - 1) : out[t].position <= out[t + 1].position
    IN /\ Running("iter_results") =>
             /\ InOrder(Top.out, Top.pre)
             /\ axis = Top.pre.axis
       /\ last.gen = "iter_results" =>
             /\ InOrder(last.out, last.pre)
             /\ last.how = "return"
             /\ Focus = last.pre

\* iter_results has ended after yielding two results that were given in the
\* reverse of their document order.
C10_Witness ==
    /\ last.gen = "iter_results"
    /\ last.how = "return"
    /\ Len(last.out) >= 2
    /\ Len(last.arg.results) = 2
    /\ last.out[1].position < last.out[2].position
    /\ StandsFor(last.arg.results[2], last.out[1].node)
    /\ StandsFor(last.arg.results[1], last.out[2].node)
    /\ last.pre.item # last.out[2].item

\* C11: a typed wrapper T(e) in results, with e in the tree and the bare e
\* not in results, is yielded (never the bare e) while the walk is on e; a
\* typed wrapper is only ever yielded while the walk is on the element it
\* wraps, so one that wraps an element the walk does not reach is never
\* yielded.
C11_TypedMatching ==
    LET walk == etree_iter_nodes(RootElem, TRUE, TRUE)
        OnItsElement(out) ==
            \A t \in 1..Len(out) :
                out[t].node.kind = "typed" =>
                    /\ out[t].item = out[t].node.elem
                    /\ walk[out[t].position] = out[t].node.elem
    IN /\ Running("iter_results") => OnItsElement(Top.out)
       /\ (last.gen = "iter_results" /\ last.how = "return") =>
             /\ OnItsElement(last.out)
             /\ \A k \in 1..Len(last.arg.results) :
                   LET T == last.arg.results[k]
                   IN T.kind = "typed" =>
                         IF T.elem \notin Range(walk)
                         THEN \A t \in 1..Len(last.out) : last.out[t].node # T
                         ELSE PyIn(T.elem, last.arg.results)
                              \/ /\ \E t \in 1..Len(last.out) : last.out[t].node = T
                                 /\ \A t \in 1..Len(last.out) :
                                       last.out[t].node # T.elem

\* iter_results has ended after yielding the typed wrapper of an element
\* below the root, given together with a wrapper of an element of no tree.
C11_Witness ==
    /\ last.gen = "iter_results"
    /\ last.how = "return"
    /\ tree.n >= 2
    /\ \E t \in 1..Len(last.out) : last.out[t].node = TypedElement(tree.n)
    /\ PyIn(TypedElement(0), last.arg.results)

-----------------------------------------------------------------------------
(* Position and size at the yields *)

Drivers == {"iter_results", "iter_selector"}

\* The traversals under way or ended: axis iterators and drivers.
FocusRuns ==
    (IF stack # <<>> /\ Top.gen \in AxisGens \cup Drivers THEN {Top} ELSE {})
    \cup (IF last.gen \in AxisGens \cup Drivers THEN {last} ELSE {})

\* C12: at every yield of an axis iterator, of iter_results and of
\* iter_selector, 1 <= position <= size, when that held before the call.
C12_PositionWithinSize ==
    \A run \in FocusRuns :
        (1 <= run.pre.position /\ run.pre.position <= run.pre.size) =>
            \A t \in 1..Len(run.out) :
                /\ 1 <= run.out[t].position
                /\ run.out[t].position <= run.out[t].size

\* The traversal counts its positions down (ancestor, preceding-sibling).
CountsDown(run) ==
    \/ run.gen = "iter_ancestors"
    \/ run.gen = "iter_siblings" /\ run.arg.axis = "preceding-sibling"

\* C13: in a traversal of an axis iterator run to its end, at every yield
\* size is the number of nodes the traversal yields and item is the node
\* yielded, and the positions are 1..size in turn (size..1 for ancestor and
\* preceding-sibling).
C13_SizeAndPositions ==
    (last.gen \in AxisGens /\ last.how = "return") =>
        LET n == Len(last.out)
        IN \A t \in 1..n :
              /\ last.out[t].size = n
              /\ last.out[t].item = last.out[t].node
              /\ last.out[t].position = IF CountsDown(last) THEN n - t + 1 ELSE t

\* The runs of iter_selector, under way or ended.
SelectorRuns ==
    (IF Running("iter_selector") THEN {Top} ELSE {})
    \cup (IF last.gen = "iter_selector" THEN {last} ELSE {})

\* C14: once iter_selector has started, the selector has been called once,
\* on a clone (what it did shows in the clone and neither in the axis nor in
\* the variables of the context) and before the first yield; the values are
\* yielded in the selector's order as item, with size their count and
\* position 1, 2, ...; after a normal end all of them have been yielded and
\* item, size and position are as before the call.
C14_SelectorOnClone ==
    \A run \in SelectorRuns :
        run.pc # "start" =>
            LET sel == run.arg.selector
            IN /\ run.calls = 1
               /\ clone # NoClone
               /\ clone.axis = (IF sel.touches THEN "child" ELSE NoAxis)
               /\ clone.variable_values =
                     (IF sel.touches THEN Bind(run.vars, NameList(<<0>>), 0, 7)
                      ELSE run.vars)
               /\ axis = run.pre.axis
               /\ variable_values = run.vars
               /\ Len(run.out) <= Len(sel.values)
               /\ \A t \in 1..Len(run.out) :
                     /\ run.out[t].node = sel.values[t]
                     /\ run.out[t].item = sel.values[t]
                     /\ run.out[t].size = Len(sel.values)
                     /\ run.out[t].position = t
                     /\ run.out[t].axis = run.pre.axis
                     /\ run.out[t].vars = run.vars
               /\ (run = last) =>
                     /\ Len(run.out) = Len(sel.values)
                     /\ Focus = run.pre

\* iter_selector has ended after yielding two values of a selector that
\* worked on the context it was given.
C14_Witness ==
    /\ last.gen = "iter_selector"
    /\ last.how = "return"
    /\ last.arg.selector.touches
    /\ Len(last.out) = 2
    /\ last.out[1].node # last.out[2].node
    /\ last.pre.item # last.out[2].node

-----------------------------------------------------------------------------
(* A context and its copy, each worked on *)

\* context.copy() and context.copy(clear_axis=False)
Copy ==
    /\ clone = NoClone
    /\ clone' = copy(Self, TRUE)
    /\ UNCHANGED <<tree, root, item, position, size, axis, parent_map, cache,
                   variable_values, stack, last, _elem, current_dt, timezone>>

CopyKeepAxis ==
    /\ clone = NoClone
    /\ clone' = copy(Self, FALSE)
    /\ UNCHANGED <<tree, root, item, position, size, axis, parent_map, cache,
                   variable_values, stack, last, _elem, current_dt, timezone>>

\* context.iter_children_or_self(child_axis=True) on the context.
CallChildren ==
    /\ stack = <<>>
    /\ last = NoLast
    /\ stack' = <<NewFrame("iter_children_or_self", [child_axis |-> TRUE])>>
    /\ UNCHANGED others
    /\ UNCHANGED <<tree, root, item, position, size, axis, parent_map, cache,
                   variable_values, last>>

\* context.variable_values[0] = 1
BindVariable ==
    /\ 0 \notin DOMAIN variable_values
    /\ variable_values' = Bind(variable_values, NameList(<<0>>), 0, 1)
    /\ UNCHANGED others
    /\ UNCHANGED <<tree, root, item, position, size, axis, parent_map, cache,
                   stack, last>>

\* The variables as the copy sees them.
CloneVariables ==
    IF clone.alias THEN variable_values ELSE clone.variable_values

\* The calls made on the copy: the child axis and the ancestor axis.
CloneCalls ==
    {[gen |-> "iter_children_or_self", arg |-> [child_axis |-> TRUE]],
     [gen |-> "iter_ancestors", arg |-> [axis |-> NoAxis]]}

\* A generator is created on the copy (at most one, once).
CloneCall ==
    /\ clone # NoClone
    /\ clone.run = <<>>
    /\ clone.axis \in {NoAxis, "attribute"}
    /\ \E c \in CloneCalls :
          clone' = [clone EXCEPT !.run = <<NewFrame(c.gen, c.arg)>>]
    /\ UNCHANGED <<tree, root, item, position, size, axis, parent_map, cache,
                   variable_values, stack, last, _elem, current_dt, timezone>>

\* One resume of the generator of the copy.
CloneStep ==
    /\ clone # NoClone
    /\ clone.run # <<>>
    /\ \E r \in {Step(clone.run[1],
                      [item |-> clone.item, size |-> clone.size,
                       position |-> clone.position, axis |-> clone.axis],
                      [pm |-> clone.parent_map, cache |-> clone.cache])} :
          clone' = [clone EXCEPT !.item = r.foc.item, !.size = r.foc.size,
                                 !.position = r.foc.position,
                                 !.axis = r.foc.axis,
                                 !.parent_map = r.st.pm, !.cache = r.st.cache,
                                 !.run = IF r.fin THEN <<>> ELSE <<r.f>>]
    /\ UNCHANGED <<tree, root, item, position, size, axis, parent_map, cache,
                   variable_values, stack, last, _elem, current_dt, timezone>>

\* The generator of the copy is closed at a yield and given up.
CloneClose ==
    /\ clone # NoClone
    /\ clone.run # <<>>
    /\ clone.run[1].pc # "start"
    /\ clone' = [clone EXCEPT !.run = <<>>]
    /\ UNCHANGED <<tree, root, item, position, size, axis, parent_map, cache,
                   variable_values, stack, last, _elem, current_dt, timezone>>

\* clone.variable_values[0] = 2: the dict that is written is the one of the
\* context too when the copy holds the same dict.
CloneBind ==
    /\ clone # NoClone
    /\ 0 \notin DOMAIN CloneVariables
    /\ IF clone.alias
       THEN /\ variable_values' = Bind(variable_values, NameList(<<0>>), 0, 2)
            /\ clone' = clone
       ELSE /\ clone' = [clone EXCEPT !.variable_values =
                                         Bind(@, NameList(<<0>>), 0, 2)]
            /\ variable_values' = variable_values
    /\ UNCHANGED <<tree, root, item, position, size, axis, parent_map, cache,
                   stack, last, _elem, current_dt, timezone>>

\* A context over a tree with text and without tails or comments, on no
\* item or on the last element.
InitCopy ==
    /\ tree \in {t \in Trees : t.tail = {} /\ t.comment = {} /\ t.text # {}}
    /\ \E r \in {Elem(1), Doc}, it \in {None, Elem(tree.n)} :
          InitContext(r, it, 2, 3, "attribute")

NextCopy ==
    \/ Copy
    \/ CopyKeepAxis
    \/ CallChildren
    \/ IterChildrenOrSelf
    \/ Throw
    \/ AssignItemNone
    \/ BindVariable
    \/ CloneCall
    \/ CloneStep
    \/ CloneClose
    \/ CloneBind

SpecCopy == InitCopy /\ [][NextCopy]_vars

\* The copy just made has the root, item, position, size, _elem and
\* parent map of the context.
SameAsContext ==
    /\ clone'.root = root
    /\ clone'.item = item
    /\ clone'.position = position
    /\ clone'.size = size
    /\ clone'._elem = _elem
    /\ clone'.parent_map = parent_map

\* C15: copy() gives a context with the root, item (None stays None),
\* position, size, _elem and parent map of the original and with axis None;
\* copy(clear_axis=False) gives the same with the axis of the original; the
\* original is as it was.
C15_CopyFields ==
    [][/\ Copy => (SameAsContext /\ clone'.axis = NoAxis /\ Self' = Self)
       /\ CopyKeepAxis => (SameAsContext /\ clone'.axis = axis /\ Self' = Self)]_vars

\* A copy has been made of a context on an element root whose item is None
\* and whose axis had been set.
C15_Witness ==
    /\ clone # NoClone
    /\ is_etree_element(root)
    /\ clone.item = None
    /\ clone._elem # None
    /\ clone.axis = "attribute"

\* The focus of the copy and the variables it sees.
CloneView ==
    [item |-> clone.item, position |-> clone.position, size |-> clone.size,
     axis |-> clone.axis, variable_values |-> CloneVariables]

\* C16: a traversal step, a give-up or a binding on the copy leaves item,
\* position, size, axis and variable_values of the original as they are, and
\* one on the original leaves those of the copy as they are.
C16_CopyIndependent ==
    [][/\ (CloneCall \/ CloneStep \/ CloneClose \/ CloneBind) =>
             (Focus' = Focus /\ variable_values' = variable_values)
       /\ (clone # NoClone /\ (CallChildren \/ IterChildrenOrSelf \/ Throw
                               \/ AssignItemNone \/ BindVariable)) =>
             CloneView' = CloneView]_vars

\* The copy has been left in the middle of a child traversal and has a
\* binding, the original has another binding and is on another axis.
C16_Witness ==
    /\ clone # NoClone
    /\ clone.run = <<>>
    /\ clone.axis = "child"
    /\ 0 \in DOMAIN clone.variable_values
    /\ 0 \in DOMAIN variable_values
    /\ variable_values[0] # clone.variable_values[0]
    /\ axis # "child"

-----------------------------------------------------------------------------
(* Construction *)

NoContext == [kind |-> "unset"]

\* The arguments given to XPathContext(...): as root the document, the root
\* element, the last element (a comment in some trees) and things that are
\* no root; as item nothing, elements, a comment, a text node, an attribute,
\* a typed element, an element of no tree.
NewArgs ==
    LET ns == etree_iter_nodes(Doc, TRUE, TRUE)
        text == FirstOf(ns, "text")
        attr == FirstOf(ns, "attr")
    IN [root : {Doc, Elem(1), Elem(tree.n), None, TypedElement(1)}
               \cup text \cup attr,
        item : {None, Elem(1), Elem(tree.n), TypedElement(tree.n), OutElem}
               \cup text \cup attr,
        focus : {<<1, 1, NoAxis>>, <<2, 3, "attribute">>},
        variable_values : {[given |-> FALSE, map |-> NoVariables],
                           [given |-> TRUE,
                            map |-> Bind(NoVariables, NameList(<<0>>), 0, 1)]},
        current_dt : {None, DateTime(None), DateTime(Timezone("Z"))},
        timezone : {None, Timezone("Z"), Str("Z")}]

\* XPathContext(root, item=..., position=..., ...): the context is made, or
\* ElementPathTypeError is raised and there is no context.
New ==
    /\ last = NoLast
    /\ \E a \in NewArgs :
          IF ValidRoot(a.root)
          THEN /\ root' = a.root
               /\ item' = InitItem(a.root, a.item).item
               /\ _elem' = InitItem(a.root, a.item)._elem
               /\ position' = a.focus[1]
               /\ size' = a.focus[2]
               /\ axis' = a.focus[3]
               /\ variable_values' =
                     (IF ~a.variable_values.given THEN NoVariables
                      ELSE CopyVariables(a.variable_values.map).map)
               /\ timezone' = InitTimezone(a.timezone)
               /\ current_dt' = InitCurrentDt(a.current_dt, a.timezone)
               /\ last' = [gen |-> "__init__", args |-> a, how |-> "return"]
          ELSE /\ last' = [gen |-> "__init__", args |-> a,
                           how |-> "ElementPathTypeError"]
               /\ UNCHANGED <<root, item, _elem, position, size, axis,
                              variable_values, timezone, current_dt>>
    /\ UNCHANGED <<tree, parent_map, cache, stack, clone>>

InitNew ==
    /\ tree \in {t \in Trees : t.tail = {}}
    /\ root = NoContext
    /\ item = None
    /\ _elem = None
    /\ position = 0
    /\ size = 0
    /\ axis = NoAxis
    /\ parent_map = NoMap
    /\ cache = {}
    /\ variable_values = NoVariables
    /\ timezone = None
    /\ current_dt = None
    /\ stack = <<>>
    /\ last = NoLast
    /\ clone = NoClone

NextNew == New

SpecNew == InitNew /\ [][NextNew]_vars

Made == last.gen = "__init__" /\ last.how = "return"

\* C17: on an element root, with no item given item and _elem are the root,
\* with an element given as item _elem is that item, and with an attribute,
\* a text node or a node with a callable tag given as item the item is kept
\* and _elem is the root; on a document root with no item given item is None.
C17_InitialFocus ==
    Made =>
        LET it == last.args.item
        IN /\ (is_etree_element(root) /\ it = None) =>
                 (item = root /\ _elem = root)
           /\ (is_etree_element(root) /\ is_etree_element(it) /\ ~callable_tag(it)) =>
                 (item = it /\ _elem = it)
           /\ (is_etree_element(root)
               /\ (it.kind \in {"attr", "text"} \/ callable_tag(it))) =>
                 (item = it /\ _elem = root)
           /\ (is_document_node(root) /\ it = None) => item = None

\* C18: the construction succeeds exactly when the root is a document or an
\* element whose tag is not callable; when it fails (a type error) there is
\* no context.
C18_RootChecked ==
    last.gen = "__init__" =>
        LET r == last.args.root
        IN IF is_document_node(r) \/ (is_etree_element(r) /\ ~callable_tag(r))
           THEN last.how = "return" /\ root = r
           ELSE last.how = "ElementPathTypeError" /\ root = NoContext

\* A construction on a comment has failed.
C18_Witness ==
    /\ last.gen = "__init__"
    /\ last.how = "ElementPathTypeError"
    /\ callable_tag(last.args.root)

\* C19: after construction current_dt has a timezone, whatever current_dt
\* and timezone were given.
C19_CurrentDtAware ==
    Made => (current_dt.kind = "datetime" /\ current_dt.tzinfo # None)

-----------------------------------------------------------------------------
(* An item of no tree *)

\* The traversals of the axes parent, ancestor, following-sibling,
\* preceding-sibling, following and preceding.
OutOfTreeCalls ==
    {[gen |-> "iter_parent", arg |-> NoArg],
     [gen |-> "iter_ancestors", arg |-> [axis |-> "ancestor"]],
     [gen |-> "iter_siblings", arg |-> [axis |-> "following-sibling"]],
     [gen |-> "iter_siblings", arg |-> [axis |-> "preceding-sibling"]],
     [gen |-> "iter_followings", arg |-> NoArg],
     [gen |-> "iter_preceding", arg |-> NoArg]}

\* The finished traversal is one of those calls, made and ended on a
\* context whose item is an element of no tree.
RanOutOfTree ==
    /\ last.gen \in AxisGens
    /\ last.how = "return"
    /\ [gen |-> last.gen, arg |-> last.arg] \in OutOfTreeCalls
    /\ last.pre.item = OutElem
    /\ item = OutElem

\* C20: no traversal ends in an error of its own (it returns, or is left by
\* an exception its consumer raised), and on a context whose item is an
\* element of no tree the traversals of the axes parent, ancestor,
\* following-sibling, preceding-sibling, following and preceding yield
\* nothing.
C20_OutOfTreeEmpty ==
    /\ last.gen \in AxisGens => last.how \in {"return", "throw"}
    /\ RanOutOfTree => last.out = <<>>

-----------------------------------------------------------------------------
(* Nested traversals: an iterator started at a yield of another one *)

\* The traversals nested: each generator once, the child axis also forced.
NestedCalls ==
    {[gen |-> "iter_self", arg |-> NoArg],
     [gen |-> "iter_attributes", arg |-> NoArg],
     [gen |-> "iter_parent", arg |-> NoArg],
     [gen |-> "iter_preceding", arg |-> NoArg],
     [gen |-> "iter_followings", arg |-> NoArg],
     [gen |-> "iter_children_or_self", arg |-> [child_axis |-> FALSE]],
     [gen |-> "iter_children_or_self", arg |-> [child_axis |-> TRUE]],
     [gen |-> "iter_siblings", arg |-> [axis |-> "preceding-sibling"]],
     [gen |-> "iter_ancestors", arg |-> [axis |-> "ancestor-or-self"]],
     [gen |-> "iter_descendants", arg |-> [item |-> None, axis |-> NoAxis]]}

\* for x in context.iter_xxx(...): the outer generator is created.
CallOuter ==
    /\ stack = <<>>
    /\ last = NoLast
    /\ \E c \in NestedCalls : stack' = <<NewFrame(c.gen, c.arg)>>
    /\ UNCHANGED others
    /\ UNCHANGED <<tree, root, item, position, size, axis, parent_map, cache,
                   variable_values, last>>

\* ... for y in context.iter_yyy(...): in the body of the outer loop, the
\* outer generator being suspended at a yield, an inner one is created on
\* the same context (one inner loop in a run).
CallInner ==
    /\ Len(stack) = 1
    /\ Top.pc # "start"
    /\ last = NoLast
    /\ \E c \in NestedCalls : stack' = Append(stack, NewFrame(c.gen, c.arg))
    /\ UNCHANGED others
    /\ UNCHANGED <<tree, root, item, position, size, axis, parent_map, cache,
                   variable_values, last>>

InitNested ==
    /\ tree \in {t \in Trees : t.tail = {} /\ t.comment = {}}
    /\ \E r \in {Elem(1), Doc}, it \in {None, Elem(tree.n)} :
          InitContext(r, it, 1, 1, NoAxis)

NextNested ==
    \/ CallOuter
    \/ CallInner
    \/ IterSelf
    \/ IterAttributes
    \/ IterChildrenOrSelf
    \/ IterParent
    \/ IterSiblings
    \/ IterDescendants
    \/ IterAncestors
    \/ IterPreceding
    \/ IterFollowings

SpecNested == InitNested /\ [][NextNested]_vars

\* What a traversal shows at its yields (node, position, size), run from a
\* given focus to its end with nothing done at the yields.
RECURSIVE RunShown(_)
RunShown(r) ==
    IF r.fin THEN <<>>
    ELSE <<[node |-> r.y[1], position |-> r.foc.position, size |-> r.foc.size]>>
         \o RunShown(Step(r.f, r.foc, r.st))

Shown(out) ==
    [k \in 1..Len(out) |->
        [node |-> out[k].node, position |-> out[k].position,
         size |-> out[k].size]]

\* The inner generator has just run to its end, the outer one being
\* suspended; the outer generator has just run to its end.
InnerDone == Len(stack) = 2 /\ Len(stack') = 1 /\ last'.how = "return"
OuterDone == Len(stack) = 1 /\ stack' = <<>> /\ last'.how = "return"

\* C21: when an inner traversal started at a yield of an outer one has run to
\* its end, the focus is the one of that yield; the outer traversal yields
\* the nodes, with the positions and the size, that it yields with nothing
\* done at its yields; and when it has run to its end the focus is the one
\* before its call.
C21_NestedStack ==
    [][/\ InnerDone => Focus' = last'.pre
       /\ OuterDone =>
             /\ Focus' = last'.pre
             /\ Shown(last'.out) =
                   RunShown(Step(NewFrame(last'.gen, last'.arg), last'.pre, State))]_vars

-----------------------------------------------------------------------------
(* A traversal that is abandoned *)

\* The focus shown at a yield.
FocusAt(y) ==
    [item |-> y.item, size |-> y.size, position |-> y.position, axis |-> y.axis]

\* C22: when a traversal is abandoned after its k-th yield (k >= 1: it is
\* not resumed, and is closed at that yield), the item, position, size and
\* axis of the context are those of the k-th yield: the focus taken before
\* the call is not put back.
C22_AbandonedKeepsFocus ==
    Finished("throw") =>
        /\ last.out # <<>>
        /\ Focus = FocusAt(last.out[Len(last.out)])

\* A traversal was abandoned after its second yield and the focus is not
\* the one before the call.
C22_Witness ==
    /\ Finished("throw")
    /\ Len(last.out) >= 2
    /\ Focus # last.pre
    /\ item = last.out[2].node

-----------------------------------------------------------------------------
(* get_parent on a tree that grows (an incremental parser) *)

\* The element the parser makes next: it is in no tree until it is attached.
NextElem == Elem(tree.n + 1)

\* What callers hand to get_parent while the tree grows: the element
\* attached last, bare or typed, and the one attached next.
GrowArgs == {Elem(tree.n), TypedElement(tree.n), NextElem}

\* context.get_parent(x): rebuilt says that the body built the map anew.
GrowGetParent ==
    /\ \E x \in GrowArgs :
       \E r \in {get_parent(State, x)} :
          /\ parent_map' = r.pm
          /\ cache' = r.cache
          /\ last' = [gen |-> "get_parent", arg |-> x, res |-> r.res,
                      hit |-> CacheHas(cache, x),
                      rebuilt |-> (~CacheHas(cache, x)
                                   /\ Unwrap(x) # root
                                   /\ ~MapHas(parent_map, Unwrap(x)))]
    /\ UNCHANGED others
    /\ UNCHANGED <<tree, root, item, position, size, axis, variable_values, stack>>

\* parent.append(element): the tree gets one more element, the last child
\* of the root element or of the element attached before it.
Attach ==
    /\ tree.n < MaxElems
    /\ \E p \in {1, tree.n} :
          tree' = [tree EXCEPT !.n = tree.n + 1,
                               !.parent = [c \in 2..(tree.n + 1) |->
                                              IF c <= tree.n THEN tree.parent[c]
                                              ELSE p]]
    /\ last' = [gen |-> "append"]
    /\ UNCHANGED others
    /\ UNCHANGED <<root, item, position, size, axis, parent_map, cache,
                   variable_values, stack>>

\* The parser has made the root element; every shape of tree comes by
\* growth.
InitGrow ==
    /\ tree \in {t \in BareTrees : t.n = 1}
    /\ \E r \in {Elem(1), Doc} : InitContext(r, None, 1, 1, NoAxis)

NextGrow == GrowGetParent \/ Attach

SpecGrow == InitGrow /\ [][NextGrow]_vars

\* C23: whatever calls of get_parent and growth of the tree came before,
\* get_parent of a non-root element that is in the tree now returns its
\* parent in the tree as it is now, and a map that get_parent has built
\* anew is the inverse of the child relation over root.iter().
C23_ParentAfterGrowth ==
    last.gen = "get_parent" =>
        LET e == Unwrap(last.arg)
        IN /\ (InTree(e) /\ e.id # 1) => last.res = Elem(tree.parent[e.id])
           /\ last.rebuilt => parent_map = BuildParentMap

-----------------------------------------------------------------------------
(* The child axis *)

\* The finished traversal was iter_children_or_self(child_axis=b).
RanChildren(b) ==
    /\ last.gen = "iter_children_or_self"
    /\ last.how = "return"
    /\ last.arg.child_axis = b

\* The text node of e.text, when there is a text.
TextOf(e) ==
    [k \in 1..Len(ElemText(e.id)) |-> TextNode(ElemText(e.id)[k], e.id, "text")]

\* C24: from an element e (bare or typed), iter_children_or_self(
\* child_axis=True) yields the text node of e.text when there is one, then
\* the children of e in document order; at the children size is their
\* number and position runs from 1 to size; no tail of a child is yielded.
C24_ChildAxis ==
    (RanChildren(TRUE) /\ is_element_node(last.pre.item)) =>
        LET e == Unwrap(last.pre.item)
            t == Len(TextOf(e))
            kids == ElemChildren(e)
            out == last.out
        IN /\ OutNodes(out) = TextOf(e) \o kids
           /\ \A k \in 1..Len(kids) :
                 out[t + k].position = k /\ out[t + k].size = Len(kids)
           /\ \A k \in 1..Len(out) :
                 out[k].node.kind = "text" => out[k].node.slot # "tail"

\* The traversal ran from an element with a text and two children or more,
\* the first of them with a tail.
C24_Witness ==
    /\ RanChildren(TRUE)
    /\ is_element_node(last.pre.item)
    /\ Len(last.out) >= 3
    /\ last.out[1].node.kind = "text"
    /\ ElemTail(last.out[2].node.id) # <<>>

\* C25: iter_children_or_self(child_axis=False) on a context whose axis is
\* not None yields the item of the context once, with the focus as it was,
\* and leaves the context as it was; with axis None, or with
\* child_axis=True, it is the traversal of the child axis, axis being
\* 'child' at every yield.
C25_ReentrancyMarker ==
    /\ (RanChildren(FALSE) /\ last.pre.axis # NoAxis) =>
          /\ Len(last.out) = 1
          /\ last.out[1].node = last.pre.item
          /\ FocusAt(last.out[1]) = last.pre
          /\ Focus = last.pre
          /\ parent_map = NoMap /\ cache = {}
    /\ (RanChildren(TRUE) \/ (RanChildren(FALSE) /\ last.pre.axis = NoAxis)) =>
          /\ \A k \in 1..Len(last.out) : last.out[k].axis = "child"
          /\ OutNodes(last.out) =
                AxisOutput("iter_children_or_self", [child_axis |-> TRUE],
                           [last.pre EXCEPT !.axis = NoAxis])
          /\ (is_element_node(last.pre.item) /\ InTree(Unwrap(last.pre.item))) =>
                Len(last.out) = Len(TextOf(Unwrap(last.pre.item)))
                                + Len(ElemChildren(Unwrap(last.pre.item)))

\* The short form ran on an element that has children, axis being set, and
\* yielded the element alone.
C25_Witness ==
    /\ RanChildren(FALSE)
    /\ is_element_node(last.pre.item)
    /\ ElemChildren(Unwrap(last.pre.item)) # <<>>
    /\ last.pre.axis = "attribute"
    /\ Len(last.out) = 1

-----------------------------------------------------------------------------
(* The reverse axes: ancestors and preceding siblings *)

\* The finished traversal was gen(axis) and it started on an element of the
\* tree, bare or typed.
RanAxis(gen, ax) ==
    /\ last.gen = gen
    /\ last.how = "return"
    /\ last.arg.axis = ax
    /\ is_element_node(last.pre.item)
    /\ InTree(Unwrap(last.pre.item))

\* The elements from the root element down to element i.
RECURSIVE ChainTo(_)
ChainTo(i) ==
    IF i = 1 THEN <<Elem(1)>> ELSE Append(ChainTo(tree.parent[i]), Elem(i))

\* Position and size at each yield of a traversal that counts down from n.
CountsDownFrom(out, n) ==
    \A k \in 1..Len(out) : out[k].size = n /\ out[k].position = n + 1 - k

\* C26: from an element e of the tree iter_ancestors('ancestor-or-self')
\* yields the elements from the root down to e, size being their number and
\* position going from size down to 1; iter_ancestors('ancestor') yields the
\* same elements but e.
C26_AncestorChain ==
    /\ RanAxis("iter_ancestors", "ancestor-or-self") =>
          LET chain == ChainTo(Unwrap(last.pre.item).id)
          IN /\ OutNodes(last.out) = chain
             /\ CountsDownFrom(last.out, Len(chain))
    /\ RanAxis("iter_ancestors", "ancestor") =>
          LET chain == ChainTo(Unwrap(last.pre.item).id)
          IN OutNodes(last.out) = SubSeq(chain, 1, Len(chain) - 1)

\* The traversal with self ran from an element on the third level or lower.
C26_Witness ==
    /\ RanAxis("iter_ancestors", "ancestor-or-self")
    /\ Len(last.out) >= 3
    /\ last.out[1].node = Elem(1)
    /\ last.out[1].position = Len(last.out)

\* C27: iter_ancestors() with no axis given is iter_ancestors(
\* 'ancestor-or-self'): axis is 'ancestor-or-self' at the yields and the
\* nodes, the item itself among them, are the same.
C27_DefaultAncestorAxis ==
    RanAxis("iter_ancestors", NoAxis) =>
        /\ \A k \in 1..Len(last.out) : last.out[k].axis = "ancestor-or-self"
        /\ OutNodes(last.out) =
              AxisOutput("iter_ancestors", [axis |-> "ancestor-or-self"], last.pre)
        /\ last.out # <<>>
        /\ last.out[Len(last.out)].node = Unwrap(last.pre.item)

\* C28: from an element e of the tree that has a parent,
\* iter_siblings('preceding-sibling') yields the children of the parent that
\* come before e, the nearest one first (reverse document order), position
\* going down by one from size.
C28_PrecedingSiblingsReversed ==
    (RanAxis("iter_siblings", "preceding-sibling")
     /\ Unwrap(last.pre.item) # RootElem) =>
        LET e == Unwrap(last.pre.item)
            kids == ElemChildren(Elem(tree.parent[e.id]))
            first == CHOOSE k \in 1..Len(kids) : kids[k] = e
        IN /\ OutNodes(last.out) = Reverse(SubSeq(kids, 1, first - 1))
           /\ CountsDownFrom(last.out, first - 1)

\* C28 as amended: the preceding siblings are yielded in document order,
\* the farthest one first, position going down by one from size, so that
\* the nearest preceding sibling is shown at position 1.
C28_PrecedingSiblingsCountDown ==
    (RanAxis("iter_siblings", "preceding-sibling")
     /\ Unwrap(last.pre.item) # RootElem) =>
        LET e == Unwrap(last.pre.item)
            kids == ElemChildren(Elem(tree.parent[e.id]))
            first == CHOOSE k \in 1..Len(kids) : kids[k] = e
        IN /\ OutNodes(last.out) = SubSeq(kids, 1, first - 1)
           /\ CountsDownFrom(last.out, first - 1)

\* The traversal ran from an element with two preceding siblings or more.
C28_Witness ==
    /\ RanAxis("iter_siblings", "preceding-sibling")
    /\ Len(last.out) >= 2
    /\ last.out[Len(last.out)].position = 1

-----------------------------------------------------------------------------
(* The following and the preceding axis *)

\* Element i lies under element a (a is an ancestor of i).
Under(i, a) == i # a /\ Elem(a) \in Range(ChainTo(i))

\* The node x is e or lies in the subtree of e: an element under e, the
\* text of e or of an element under e, the tail of an element under e.
Inside(x, e) ==
    IF x.kind = "elem" THEN x = e \/ Under(x.id, e.id)
    ELSE IF x.kind = "text"
         THEN IF x.slot = "text" THEN x.owner = e.id \/ Under(x.owner, e.id)
              ELSE Under(x.owner, e.id)
    ELSE FALSE

\* The place of the node x in the sequence ns.
IndexIn(ns, x) == CHOOSE k \in 1..Len(ns) : ns[k] = x

RanPreceding ==
    /\ last.gen = "iter_preceding"
    /\ last.how = "return"
    /\ is_element_node(last.pre.item)
    /\ InTree(Unwrap(last.pre.item))
    /\ ~callable_tag(Unwrap(last.pre.item))

\* C30: from an element e of the tree iter_preceding yields, in the order
\* of root.iter(), the elements that come before e and are no ancestors of
\* e; from the root element it yields nothing, the root of the context
\* being that element or the document.
C30_PrecedingElements ==
    RanPreceding =>
        LET e == Unwrap(last.pre.item)
            es == RootIter(root)
            before == SubSeq(es, 1, IndexIn(es, e) - 1)
        IN /\ OutNodes(last.out) =
                 SelectSeq(before, LAMBDA x : ~Under(e.id, x.id))
           /\ e = Elem(1) => last.out = <<>>

\* The traversal ran from an element that has an ancestor other than the
\* root element, and yielded an element.
C30_Witness ==
    /\ RanPreceding
    /\ Len(ChainTo(Unwrap(last.pre.item).id)) >= 3
    /\ last.out # <<>>

-----------------------------------------------------------------------------
(* The attribute axis *)

\* C31: iter_attributes from an element (bare or typed) yields one
\* attribute node for each entry of the element's attrib.items(), in that
\* order, size being the number of attributes, position running from 1 to
\* size and axis being 'attribute' at the yields; from an attribute (bare
\* or typed) with axis 'attribute' it yields that item once and the context
\* is not changed; from any other item it yields nothing and the context is
\* not changed.
C31_AttributeAxis ==
    (last.gen = "iter_attributes" /\ last.how = "return") =>
        LET it == last.pre.item
            out == last.out
        IN IF is_element_node(it)
           THEN LET e == Unwrap(it)
                    at == Attrib(e.id)
                IN /\ Len(out) = Len(at)
                   /\ \A k \in 1..Len(at) :
                         /\ out[k].node = AttributeNode(at[k][1], at[k][2], e.id)
                         /\ out[k].size = Len(at)
                         /\ out[k].position = k
                         /\ out[k].axis = "attribute"
           ELSE IF it.kind \in {"attr", "typedattr"} /\ last.pre.axis = "attribute"
           THEN /\ Len(out) = 1
                /\ out[1].node = it
                /\ FocusAt(out[1]) = last.pre
                /\ Focus = last.pre
           ELSE /\ out = <<>>
                /\ Focus = last.pre

\* The traversal ran from the element with two attributes, on a context
\* whose size was not two.
C31_Witness ==
    /\ last.gen = "iter_attributes"
    /\ last.how = "return"
    /\ is_element_node(last.pre.item)
    /\ Len(last.out) = 2
    /\ last.pre.size # 2
    /\ last.out[2].node.name = "y"

-----------------------------------------------------------------------------
(* The descendants of the document *)

\* The finished traversal was iter_descendants(axis=ax) with no item given,
\* on a context whose root is a document and whose item is None.
RanFromDocument(ax) ==
    /\ last.gen = "iter_descendants"
    /\ last.how = "return"
    /\ last.arg.item = None
    /\ last.arg.axis = ax
    /\ is_document_node(root)
    /\ last.pre.item = None

\* The elements among ns, in the order of ns.
ElementsOf(ns) == SelectSeq(ns, LAMBDA x : x.kind = "elem")

\* C32: with a document root and item None, iter_descendants with the
\* 'descendant-or-self' axis or with no axis yields the document first and
\* then the walk of the tree from its root element: every element of the
\* tree once, in document order (with the texts and tails between them),
\* and the document is not yielded again.
C32_DocumentFirst ==
    (RanFromDocument(NoAxis) \/ RanFromDocument("descendant-or-self")) =>
        LET ns == OutNodes(last.out)
        IN /\ ns # <<>>
           /\ ns[1] = Doc
           /\ Tail(ns) = etree_iter_nodes(getroot, TRUE, FALSE)
           /\ ElementsOf(Tail(ns)) = RootIter(root)
           /\ \A k \in 2..Len(ns) : ns[k] # Doc

\* The traversal ran with no axis on a document of three elements or more
\* that has texts.
C32_Witness ==
    /\ RanFromDocument(NoAxis)
    /\ tree.n >= 3
    /\ tree.text # {}
    /\ Len(last.out) >= 5
    /\ last.out[2].node = Elem(1)

-----------------------------------------------------------------------------
(* No node twice *)

\* C33: the nodes yielded by one traversal of any axis iterator, run to its
\* end from any focus (item None on a context whose root is an element
\* included), are pairwise distinct.
C33_NoNodeTwice ==
    Finished("return") =>
        \A j, k \in 1..Len(last.out) :
            j < k => last.out[j].node # last.out[k].node

-----------------------------------------------------------------------------
(* iter_results: every result once *)

\* The node of the tree an item of results stands for.
NodeOf(x) ==
    IF x.kind = "typed" THEN x.elem
    ELSE IF x.kind = "typedattr" THEN x.attribute
    ELSE x

\* How many of the yields of out gave x.
Yields(out, x) == Cardinality({t \in 1..Len(out) : out[t].node = x})

-----------------------------------------------------------------------------
(* The parent axis *)

\* C35: iter_parent never yields a document.  From an element of the tree
\* other than the root element (bare or typed) it yields the parent of the
\* element once, with size = position = 1 and axis 'parent'; from the root
\* element (of an element root or of a document), from None, from an
\* attribute, a text or any other item it yields nothing and the focus is
\* left as it was.
C35_ParentAxis ==
    (last.gen = "iter_parent" /\ last.how = "return") =>
        LET e == Unwrap(last.pre.item)
            out == last.out
        IN /\ \A k \in 1..Len(out) : ~is_document_node(out[k].node)
           /\ IF InTree(e) /\ e # RootElem
              THEN /\ Len(out) = 1
                   /\ out[1].node = Elem(tree.parent[e.id])
                   /\ out[1].item = out[1].node
                   /\ out[1].size = 1 /\ out[1].position = 1
                   /\ out[1].axis = "parent"
              ELSE /\ out = <<>>
                   /\ Focus = last.pre

\* The traversal ran, on a document, from an element whose parent is not
\* the root element.
C35_Witness ==
    /\ last.gen = "iter_parent"
    /\ last.how = "return"
    /\ is_document_node(root)
    /\ Len(last.out) = 1
    /\ last.out[1].node # getroot

====
